---------------------------- MODULE Spec2Model ----------------------------
(***************************************************************************)
(* Model of the Oxylabs Amazon scraper's request pipeline:                 *)
(* OxylabsAmazonScraper.scrape_product -> _make_request ->                 *)
(* _make_request_with_retry (credential check, ASIN extraction, the retry  *)
(* loop with its except clauses and backoff sleeps), followed by the       *)
(* structural validation and envelope assembly of                          *)
(* extract_and_format_product_data.                                        *)
(*                                                                         *)
(* One behaviour is one call of scrape_product on one scraper instance.    *)
(* The upstream API is the environment: `pending` is the outcome it would  *)
(* give to the next POST, drawn afresh after every POST.                   *)
(***************************************************************************)
EXTENDS Integers, Sequences, FiniteSets, TLC

VARIABLES
    username,       \* self.username
    password,       \* self.password
    url,            \* the url argument of the call
    pc,             \* position of the call
    attempt,        \* loop variable of `for attempt in range(MAX_RETRIES)`
    last_exception, \* local last_exception of _make_request_with_retry
    pending,        \* what the upstream would answer to the next POST
    responses,      \* outcomes of the POSTs issued so far, in order
    events,         \* the POSTs and time.sleep calls of the call, in order
    retry_result,   \* how _make_request_with_retry ended (return / raise)
    response,       \* how _make_request ended
    envelope,       \* how scrape_product ended
    called,         \* the helper applied on its own ("none" during a fetch)
    input,          \* the argument that helper is applied to
    output          \* how that helper ended

\* the state of a scrape_product call
fetch_vars == << username, password, url, pc, attempt, last_exception, pending,
                 responses, events, retry_result, response, envelope >>

\* the state of a helper applied on its own
call_vars == << called, input, output >>

vars == << fetch_vars, call_vars >>

---------------------------------------------------------------------------
(* Program constants *)

\* Variant: one attempt more than the source's MAX_RETRIES.
MAX_RETRIES_OneMore == 3 + 1

MAX_RETRIES == 3
RETRY_DELAY == 1
RETRY_BACKOFF == 2
\* the {9} of ASIN_REGEX and of the four URL patterns
ASIN_TAIL_LENGTH == 9
\* the 3 of `len(self.username) < 3 or len(self.password) < 3`
MIN_CREDENTIAL_LENGTH == 3
\* the trailing `* 2` of the rate-limit sleep_time
RATE_LIMIT_FACTOR == 2

(* Bound of the model: the longest credential string drawn *)
MaxCredLen == 3

---------------------------------------------------------------------------
(* Python values *)

\* A credential: None, or a string of which only the length matters.
Credentials ==
    {[none |-> TRUE, len |-> 0]} \cup
    {[none |-> FALSE, len |-> n] : n \in 0..MaxCredLen}

Digits == {"0", "1", "2", "3", "4", "5", "6", "7", "8", "9"}
Upper == {"A", "B", "C", "D", "E", "F", "G", "H", "I", "J", "K", "L", "M",
          "N", "O", "P", "Q", "R", "S", "T", "U", "V", "W", "X", "Y", "Z"}

\* The character class [0-9A-Z] of ASIN_REGEX and of the four URL patterns.
AsinChars == Digits \cup Upper

\* A url argument: a str (its characters) or None.
StrValue(chars) == [type |-> "str", chars |-> chars]
NoneValue == [type |-> "NoneType", chars |-> << >>]

SampleAsin == << "B", "0", "8", "N", "5", "W", "R", "W", "N", "W" >>
Host == << "a", ".", "c", "o" >>

UrlDp == StrValue(Host \o << "/", "d", "p", "/" >> \o SampleAsin)
UrlGpProduct ==
    StrValue(Host \o << "/", "g", "p", "/", "p", "r", "o", "d", "u", "c", "t", "/" >>
             \o SampleAsin \o << "/", "r", "e", "f" >>)
UrlQuery == StrValue(Host \o << "/", "x", "?", "a", "s", "i", "n", "=" >> \o SampleAsin)
UrlTooShort == StrValue(Host \o << "/", "d", "p", "/", "B", "1", "2", "3" >>)
UrlLowercase ==
    StrValue(Host \o << "/", "d", "p", "/", "B", "1", "2", "3", "4", "5", "6", "7", "8", "a" >>)
UrlSearch == StrValue(Host \o << "/", "s", "?", "k", "=", "q" >>)

\* Two instants as time.strftime("%Y-%m-%d %H:%M:%S") prints them
Times == {<< "2", "0", "2", "5", "-", "0", "1", "-", "0", "1", " ", "0", "0", ":", "0", "0", ":", "0", "0" >>, << "2", "0", "2", "5", "-", "0", "1", "-", "0", "1", " ", "0", "0", ":", "0", "0", ":", "0", "1" >>}

\* The url arguments of the modelled calls.
Urls == {UrlDp, UrlQuery, UrlTooShort, UrlLowercase, NoneValue}

---------------------------------------------------------------------------
(* JSON values of a payload *)

\* A value of a parsed JSON document. A str is its characters (a character
\* outside ASCII is written as its code point, "U+2022"); an int or a bool
\* is num; a float is its repr in chars and its truncation int(value) in
\* num; a list is its elements in items; a dict is its key/value pairs in
\* items, in insertion order.
PyValue(type, chars, num, items) ==
    [type |-> type, chars |-> chars, num |-> num, items |-> items]
PyStr(chars) == PyValue("str", chars, 0, << >>)
PyInt(n) == PyValue("int", << >>, n, << >>)
PyBool(b) == PyValue("bool", << >>, IF b THEN 1 ELSE 0, << >>)
PyFloat(chars, n) == PyValue("float", chars, n, << >>)
PyNone == PyValue("NoneType", << >>, 0, << >>)
PyList(items) == PyValue("list", << >>, 0, items)
Pair(k, v) == [key |-> k, val |-> v]
PyDict(pairs) == PyValue("dict", << >>, 0, pairs)

\* `key in d` and `d[key]`
HasKey(d, k) == \E i \in 1..Len(d.items) : d.items[i].key = k
Get(d, k) == d.items[CHOOSE i \in 1..Len(d.items) : d.items[i].key = k].val

\* The truth value Python gives a value in `if value`
Truthy(v) ==
    CASE v.type = "str" -> v.chars # << >>
      [] v.type \in {"int", "bool"} -> v.num # 0
      [] v.type = "float" -> v.chars \notin {<< "0", ".", "0" >>, << "-", "0", ".", "0" >>}
      [] v.type \in {"list", "dict"} -> v.items # << >>
      [] OTHER -> FALSE

\* isinstance(value, (int, float)); bool is a subclass of int
IsNumber(v) == v.type \in {"int", "float", "bool"}

\* A float that is neither an infinity nor a NaN
IsFinite(v) == v.chars \notin {<< "i", "n", "f" >>, << "-", "i", "n", "f" >>, << "n", "a", "n" >>}

\* str(n) of an int
RECURSIVE IntChars(_)
IntChars(n) ==
    IF n < 0 THEN << "-" >> \o IntChars(0 - n)
    ELSE IF n < 10 THEN << << "0", "1", "2", "3", "4", "5", "6", "7", "8", "9" >>[n + 1] >>
    ELSE IntChars(n \div 10) \o IntChars(n % 10)

\* repr(value): a str in quotes, a list or dict with the repr of its parts
RECURSIVE py_repr(_), ReprItems(_, _)
ReprItems(items, mapping) ==
    IF items = << >>
    THEN << >>
    ELSE LET one == IF mapping
                    THEN py_repr(PyStr(Head(items).key)) \o << ":", " " >>
                             \o py_repr(Head(items).val)
                    ELSE py_repr(Head(items))
         IN IF Len(items) = 1
            THEN one
            ELSE one \o << ",", " " >> \o ReprItems(Tail(items), mapping)

py_repr(v) ==
    CASE v.type = "str" -> << "'" >> \o v.chars \o << "'" >>
      [] v.type = "int" -> IntChars(v.num)
      [] v.type = "bool" -> IF v.num = 1 THEN << "T", "r", "u", "e" >> ELSE << "F", "a", "l", "s", "e" >>
      [] v.type = "float" -> v.chars
      [] v.type = "list" -> << "[" >> \o ReprItems(v.items, FALSE) \o << "]" >>
      [] v.type = "dict" -> << "{" >> \o ReprItems(v.items, TRUE) \o << "}" >>
      [] OTHER -> << "N", "o", "n", "e" >>

\* str(value)
py_str(v) == IF v.type = "str" THEN v.chars ELSE py_repr(v)

\* The characters str.strip() removes
Whitespace == {" ", "\t", "\n", "\r"}

\* s.strip()
Strip(s) ==
    LET keep == {i \in 1..Len(s) : s[i] \notin Whitespace}
    IN IF keep = {}
       THEN << >>
       ELSE SubSeq(s, CHOOSE i \in keep : \A j \in keep : i <= j,
                      CHOOSE i \in keep : \A j \in keep : i >= j)

\* What str(e) shows of the exception a retry attempt caught: its class, the
\* HTTP status of the response it belongs to, and the attempt that raised it.
\* NoLast is None.
LastInfo(exc, status, n) == [exc |-> exc, status |-> status, attempt |-> n]
NoLast == LastInfo("None", 0, 0 - 1)

\* A JSON document as returned by response.json(), or the error dict built by
\* _make_request, described by the facts _validate_response_structure looks
\* at: its type, its top-level keys, the values of "error" and "message"
\* (message_last: the last_exception a message was formatted with), the type
\* and length of "results", the type of results[0], whether it has "content",
\* and the type of that content; content is results[0]["content"] itself.
Body(type, keys, error, results_type, results_len, first_type, first_has_content, content_type) ==
    [type |-> type, keys |-> keys, error |-> error,
     message |-> "", message_last |-> NoLast,
     results_type |-> results_type, results_len |-> results_len,
     first_type |-> first_type, first_has_content |-> first_has_content,
     content_type |-> content_type, content |-> PyNone]

NoBody == Body("NoneType", {}, "", "NoneType", 0, "NoneType", FALSE, "NoneType")

\* {"results": [{"content": content}]}
Payload(content) ==
    [Body("dict", {"results"}, "", "list", 1, "dict", TRUE, content.type)
        EXCEPT !.content = content]

\* {"title": "Minimal Product"}
MinimalContent == PyDict(<< Pair(<< "t", "i", "t", "l", "e" >>, PyStr(<< "M", "i", "n", "i", "m", "a", "l", " ", "P", "r", "o", "d", "u", "c", "t" >>)) >>)

BodyValid == Payload(MinimalContent)
BodyEmptyDict == Body("dict", {}, "", "NoneType", 0, "NoneType", FALSE, "NoneType")
BodyEmptyResults == Body("dict", {"results"}, "", "list", 0, "NoneType", FALSE, "NoneType")
BodyResultsNotList == Body("dict", {"results"}, "", "dict", 0, "NoneType", FALSE, "NoneType")
BodyNoContent == Body("dict", {"results"}, "", "list", 1, "dict", FALSE, "NoneType")
BodyContentNotDict == Payload(PyStr(<< "x" >>))
BodyFirstNotIterable == Body("dict", {"results"}, "", "list", 1, "int", FALSE, "NoneType")
BodyList == Body("list", {}, "", "NoneType", 0, "NoneType", FALSE, "NoneType")
BodyUpstreamError ==
    [Body("dict", {"error", "message"}, "quota", "NoneType", 0, "NoneType", FALSE, "NoneType")
        EXCEPT !.message = "quota exceeded"]

Bodies == {BodyValid, BodyEmptyDict, BodyEmptyResults, BodyResultsNotList, BodyNoContent,
           BodyContentNotDict, BodyFirstNotIterable, BodyList, BodyUpstreamError}

---------------------------------------------------------------------------
(* Exceptions *)

\* A raised exception: its class, its message, for the final
\* APIConnectionError the last_exception its message is built from, and
\* in fmt the fixed text an f-string puts before the message.
Exc(type, msg) == [type |-> type, msg |-> msg, last |-> NoLast, fmt |-> ""]
ExcAfterRetries(last) ==
    [type |-> "APIConnectionError", msg |-> "Request failed after MAX_RETRIES attempts",
     last |-> last, fmt |-> ""]
NoExc == Exc("None", "")

\* Direct base classes: the scraper's own exceptions, and those of
\* requests.exceptions and json that the except clauses name or can meet.
Bases(t) ==
    CASE t \in {"InvalidASINError", "APIConnectionError", "RateLimitError",
                "InvalidCredentialsError", "DataExtractionError", "ValidationError"}
            -> {"ScraperError"}
      [] t = "ScraperError" -> {"Exception"}
      [] t \in {"Timeout", "HTTPError", "ConnectionError", "InvalidJSONError"}
            -> {"RequestException"}
      [] t = "ConnectTimeout" -> {"ConnectionError", "Timeout"}
      [] t = "RequestsJSONDecodeError" -> {"InvalidJSONError", "JSONDecodeError"}
      [] t = "RequestException" -> {"OSError"}
      [] t = "JSONDecodeError" -> {"ValueError"}
      [] t = "InvalidOperation" -> {"DecimalException"}
      [] t \in {"DecimalException", "OverflowError"} -> {"ArithmeticError"}
      [] t \in {"OSError", "ValueError", "TypeError", "RuntimeError", "ArithmeticError"}
            -> {"Exception"}
      [] OTHER -> {}

RECURSIVE IsSubclass(_, _)
IsSubclass(t, cls) ==
    \/ t = cls
    \/ \E b \in Bases(t) : IsSubclass(b, cls)

\* The first except clause of `clauses` (in source order) that catches an
\* exception of class t; "uncaught" when none does.
FirstClause(t, clauses) ==
    IF \E i \in 1..Len(clauses) : IsSubclass(t, clauses[i])
    THEN clauses[CHOOSE i \in 1..Len(clauses) :
                    /\ IsSubclass(t, clauses[i])
                    /\ \A j \in 1..(i - 1) : ~IsSubclass(t, clauses[j])]
    ELSE "uncaught"

---------------------------------------------------------------------------
(* The upstream: what one POST + raise_for_status + json() can do *)

Outcome(exc, status, body) == [exc |-> exc, status |-> status, body |-> body]

HttpErrorStatuses == {400, 401, 429, 500, 503}

\* The documents the upstream of the fetch answers with.
UpstreamBodies == {BodyValid, BodyEmptyDict, BodyNoContent, BodyFirstNotIterable,
                   BodyList, BodyUpstreamError}

Outcomes ==
    {Outcome("none", 200, b) : b \in UpstreamBodies}
    \cup {Outcome(e, 0, NoBody) :
            e \in {"Timeout", "ConnectionError", "RequestException", "RuntimeError"}}
    \cup {Outcome("HTTPError", s, NoBody) : s \in HttpErrorStatuses}
    \* response.json() fails: json.JSONDecodeError (requests < 2.27, or a mock)
    \* or requests.exceptions.JSONDecodeError (requests >= 2.27)
    \cup {Outcome(e, 200, NoBody) : e \in {"JSONDecodeError", "RequestsJSONDecodeError"}}

---------------------------------------------------------------------------
(* Preconditions of a fetch *)

\* A function's result: the exception it raised (NoExc when it returned)
\* and the value it returned.
Raised(e) == [status |-> "raised", exc |-> e, value |-> NoBody]
Returned(v) == [status |-> "returned", exc |-> NoExc, value |-> v]
Running == [status |-> "running", exc |-> NoExc, value |-> NoBody]

\* Variant: the emptiness check alone, without the length check.
validate_credentials_NoLengthCheck(u, p) ==
    IF (u.none \/ u.len = 0) \/ (p.none \/ p.len = 0)
    THEN Raised(Exc("InvalidCredentialsError", "Username and password are required"))
    ELSE Returned(NoBody)

\* OxylabsAmazonScraper._validate_credentials
validate_credentials(u, p) ==
    IF (u.none \/ u.len = 0) \/ (p.none \/ p.len = 0)
    THEN Raised(Exc("InvalidCredentialsError", "Username and password are required"))
    ELSE IF u.len < MIN_CREDENTIAL_LENGTH \/ p.len < MIN_CREDENTIAL_LENGTH
         THEN Raised(Exc("InvalidCredentialsError", "Invalid credential format"))
         ELSE Returned(NoBody)

\* OxylabsAmazonScraper._validate_asin: ASIN_REGEX.match(asin), where `$`
\* also matches just before a final newline.
validate_asin(asin) ==
    /\ \/ Len(asin) = 1 + ASIN_TAIL_LENGTH
       \/ Len(asin) = 2 + ASIN_TAIL_LENGTH /\ asin[Len(asin)] = "\n"
    /\ asin[1] = "B"
    /\ \A j \in 2..(1 + ASIN_TAIL_LENGTH) : asin[j] \in AsinChars

\* The four asin_patterns, each a literal prefix followed by the group
\* (B[0-9A-Z]{9}), in the order the loop tries them.
asin_patterns ==
    << << "/", "d", "p", "/" >>,
       << "/", "p", "r", "o", "d", "u", "c", "t", "/" >>,
       << "/", "g", "p", "/", "p", "r", "o", "d", "u", "c", "t", "/" >>,
       << "a", "s", "i", "n", "=" >> >>

\* The pattern `prefix(B[0-9A-Z]{9})` matches s starting at position i.
MatchesAt(prefix, s, i) ==
    /\ i + Len(prefix) + ASIN_TAIL_LENGTH <= Len(s)
    /\ \A j \in 1..Len(prefix) : s[i + j - 1] = prefix[j]
    /\ s[i + Len(prefix)] = "B"
    /\ \A j \in 1..ASIN_TAIL_LENGTH : s[i + Len(prefix) + j] \in AsinChars

\* re.search(pattern, url).group(1): the group of the leftmost match,
\* << >> for no match.
re_search(prefix, s) ==
    IF \E i \in 1..Len(s) : MatchesAt(prefix, s, i)
    THEN LET i == CHOOSE k \in 1..Len(s) :
                      /\ MatchesAt(prefix, s, k)
                      /\ \A m \in 1..(k - 1) : ~MatchesAt(prefix, s, m)
         IN SubSeq(s, i + Len(prefix), i + Len(prefix) + ASIN_TAIL_LENGTH)
    ELSE << >>

\* Variant: of the patterns that match, the one whose match stands leftmost
\* in the URL wins, whatever its place in the list.
extract_asin_from_url_LeftmostWins(u) ==
    IF u.type # "str"
    THEN Raised(Exc("TypeError", "expected string or bytes-like object"))
    ELSE LET hits == {k \in 1..Len(asin_patterns) :
                        /\ re_search(asin_patterns[k], u.chars) # << >>
                        /\ validate_asin(re_search(asin_patterns[k], u.chars))}
             pos(k) == CHOOSE i \in 1..Len(u.chars) :
                          /\ MatchesAt(asin_patterns[k], u.chars, i)
                          /\ \A m \in 1..(i - 1) : ~MatchesAt(asin_patterns[k], u.chars, m)
         IN IF hits = {}
            THEN Raised(Exc("InvalidASINError", "Invalid or missing ASIN in URL"))
            ELSE Returned(re_search(asin_patterns[CHOOSE k \in hits :
                                                     \A m \in hits : pos(k) <= pos(m)],
                                    u.chars))

\* OxylabsAmazonScraper._extract_asin_from_url
extract_asin_from_url(u) ==
    IF u.type # "str"
    THEN Raised(Exc("TypeError", "expected string or bytes-like object"))
    ELSE LET hits == {k \in 1..Len(asin_patterns) :
                        /\ re_search(asin_patterns[k], u.chars) # << >>
                        /\ validate_asin(re_search(asin_patterns[k], u.chars))}
         IN IF hits = {}
            THEN Raised(Exc("InvalidASINError", "Invalid or missing ASIN in URL"))
            ELSE Returned(re_search(asin_patterns[CHOOSE k \in hits : \A m \in hits : k <= m],
                                    u.chars))

---------------------------------------------------------------------------
(* _make_request_with_retry *)

PostEvent(n) == [op |-> "post", arg |-> n]
SleepEvent(secs) == [op |-> "sleep", arg |-> secs]

\* Variant: the delay grows linearly, RETRY_DELAY * RETRY_BACKOFF * attempt.
BackoffDelay_Linear(n) == RETRY_DELAY * RETRY_BACKOFF * n

\* Variant: the delay does not grow.
BackoffDelay_Constant(n) == RETRY_DELAY

\* RETRY_DELAY * (RETRY_BACKOFF ** attempt)
BackoffDelay(n) == RETRY_DELAY * (RETRY_BACKOFF ^ n)

\* Variant: the rate-limit sleep without its extra factor.
RateLimitDelay_NoFactor(n) == RETRY_DELAY * (RETRY_BACKOFF ^ n)

\* sleep_time = RETRY_DELAY * (RETRY_BACKOFF ** attempt) * 2
RateLimitDelay(n) == RETRY_DELAY * (RETRY_BACKOFF ^ n) * RATE_LIMIT_FACTOR

\* The except clauses of the retry loop, in source order.
RetryClauses == << "Timeout", "HTTPError", "ConnectionError", "RequestException",
                   "JSONDecodeError", "Exception" >>

\* The clause that handles the pending outcome; "none" when the POST,
\* raise_for_status and json() all succeed.
Handler(o) == IF o.exc = "none" THEN "none" ELSE FirstClause(o.exc, RetryClauses)

\* self._validate_credentials() of _make_request_with_retry
ValidateCredentials ==
    /\ pc = "validate_credentials"
    /\ LET r == validate_credentials(username, password)
       IN IF r.status = "raised"
          THEN retry_result' = r /\ pc' = "make_request"
          ELSE pc' = "extract_asin" /\ UNCHANGED retry_result
    /\ UNCHANGED << username, password, url, attempt, last_exception, pending,
                    responses, events, response, envelope >>
    /\ UNCHANGED call_vars

\* asin = self._extract_asin_from_url(url), then the loop is entered
ExtractAsin ==
    /\ pc = "extract_asin"
    /\ LET r == extract_asin_from_url(url)
       IN IF r.status = "raised"
          THEN retry_result' = Raised(r.exc) /\ pc' = "make_request"
          ELSE pc' = "attempt" /\ UNCHANGED retry_result
    /\ UNCHANGED << username, password, url, attempt, last_exception, pending,
                    responses, events, response, envelope >>
    /\ UNCHANGED call_vars

\* One iteration issues the POST: the upstream's pending outcome is consumed.
Issue(clause) ==
    /\ pc = "attempt"
    /\ attempt < MAX_RETRIES
    /\ Handler(pending) = clause
    /\ responses' = Append(responses, pending)
    /\ pending' \in Outcomes
    /\ UNCHANGED << username, password, url, response, envelope >>
    /\ UNCHANGED call_vars

\* Variant: `if attempt < MAX_RETRIES`, which sleeps after the last attempt too.
RetryOrFallThrough_AlwaysSleep(delay) ==
    /\ IF attempt < MAX_RETRIES - 1
       THEN /\ events' = events \o << PostEvent(attempt), SleepEvent(delay) >>
            /\ attempt' = attempt + 1
            /\ pc' = "attempt"
       ELSE /\ events' = events \o << PostEvent(attempt), SleepEvent(delay) >>
            /\ attempt' = attempt
            /\ pc' = "exhausted"
    /\ UNCHANGED retry_result

\* `if attempt < MAX_RETRIES - 1: time.sleep(delay); continue`, else fall out
\* of the except clause, which on the last iteration ends the loop.
RetryOrFallThrough(delay) ==
    /\ IF attempt < MAX_RETRIES - 1
       THEN /\ events' = events \o << PostEvent(attempt), SleepEvent(delay) >>
            /\ attempt' = attempt + 1
            /\ pc' = "attempt"
       ELSE /\ events' = Append(events, PostEvent(attempt))
            /\ attempt' = attempt
            /\ pc' = "exhausted"
    /\ UNCHANGED retry_result

\* `return result` or `raise ...` inside the loop
Leave(result) ==
    /\ events' = Append(events, PostEvent(attempt))
    /\ retry_result' = result
    /\ pc' = "make_request"
    /\ UNCHANGED attempt

\* The exception object caught in this iteration
Caught == LastInfo(pending.exc, pending.status, attempt)

\* try body: post, raise_for_status and json() succeed; return result
RequestSucceeds ==
    /\ Issue("none")
    /\ Leave(Returned(pending.body))
    /\ UNCHANGED last_exception

\* Variant: a timeout is raised as APIConnectionError at once.
HandleTimeout_Fatal ==
    /\ Issue("Timeout")
    /\ Leave(Raised([Exc("APIConnectionError", "Request timeout") EXCEPT !.last = Caught]))
    /\ UNCHANGED last_exception

\* except requests.exceptions.Timeout
HandleTimeout ==
    /\ Issue("Timeout")
    /\ last_exception' = Caught
    /\ RetryOrFallThrough(BackoffDelay(attempt))

\* Variant: a server error is retried without being recorded in
\* last_exception, as the 429 branch does.
HandleHTTPError_ServerErrorNotRecorded ==
    /\ Issue("HTTPError")
    /\ IF pending.status = 401
       THEN /\ Leave(Raised(Exc("InvalidCredentialsError", "Invalid API credentials")))
            /\ UNCHANGED last_exception
       ELSE IF pending.status = 429
       THEN /\ UNCHANGED last_exception
            /\ IF attempt < MAX_RETRIES - 1
               THEN RetryOrFallThrough(RateLimitDelay(attempt))
               ELSE Leave(Raised(Exc("RateLimitError", "Rate limit exceeded after retries")))
       ELSE IF pending.status >= 500
       THEN /\ UNCHANGED last_exception
            /\ RetryOrFallThrough(BackoffDelay(attempt))
       ELSE /\ Leave(Raised([Exc("APIConnectionError", "HTTP error") EXCEPT !.last = Caught]))
            /\ UNCHANGED last_exception

\* except requests.exceptions.HTTPError
HandleHTTPError ==
    /\ Issue("HTTPError")
    /\ IF pending.status = 401
       THEN /\ Leave(Raised(Exc("InvalidCredentialsError", "Invalid API credentials")))
            /\ UNCHANGED last_exception
       ELSE IF pending.status = 429
       THEN /\ UNCHANGED last_exception
            /\ IF attempt < MAX_RETRIES - 1
               THEN RetryOrFallThrough(RateLimitDelay(attempt))
               ELSE Leave(Raised(Exc("RateLimitError", "Rate limit exceeded after retries")))
       ELSE IF pending.status >= 500
       THEN /\ last_exception' = Caught
            /\ RetryOrFallThrough(BackoffDelay(attempt))
       ELSE /\ Leave(Raised([Exc("APIConnectionError", "HTTP error") EXCEPT !.last = Caught]))
            /\ UNCHANGED last_exception

\* Variant: a connection error is raised as APIConnectionError at once.
HandleConnectionError_Fatal ==
    /\ Issue("ConnectionError")
    /\ Leave(Raised([Exc("APIConnectionError", "Connection error") EXCEPT !.last = Caught]))
    /\ UNCHANGED last_exception

\* except requests.exceptions.ConnectionError
HandleConnectionError ==
    /\ Issue("ConnectionError")
    /\ last_exception' = Caught
    /\ RetryOrFallThrough(BackoffDelay(attempt))

\* except requests.exceptions.RequestException
HandleRequestException ==
    /\ Issue("RequestException")
    /\ last_exception' = Caught
    /\ RetryOrFallThrough(BackoffDelay(attempt))

\* except json.JSONDecodeError
HandleJSONDecodeError ==
    /\ Issue("JSONDecodeError")
    /\ Leave(Raised([Exc("DataExtractionError", "Invalid JSON response") EXCEPT !.last = Caught]))
    /\ UNCHANGED last_exception

\* Variant: an unexpected exception is raised as APIConnectionError at once.
HandleException_Fatal ==
    /\ Issue("Exception")
    /\ Leave(Raised([Exc("APIConnectionError", "Unexpected error") EXCEPT !.last = Caught]))
    /\ UNCHANGED last_exception

\* except Exception
HandleException ==
    /\ Issue("Exception")
    /\ last_exception' = Caught
    /\ RetryOrFallThrough(BackoffDelay(attempt))

\* After the loop: raise APIConnectionError(... Last error: {last_exception})
RaiseAfterRetries ==
    /\ pc = "exhausted"
    /\ retry_result' = Raised(ExcAfterRetries(last_exception))
    /\ pc' = "make_request"
    /\ UNCHANGED << username, password, url, attempt, last_exception, pending,
                    responses, events, response, envelope >>
    /\ UNCHANGED call_vars

---------------------------------------------------------------------------
(* _make_request *)

\* Variant: _make_request without its final `except Exception`.
MakeRequestClauses_NoCatchAll ==
    << "InvalidASINError", "InvalidCredentialsError", "RateLimitError",
       "APIConnectionError", "DataExtractionError" >>

\* The except clauses of _make_request, in source order.
MakeRequestClauses == << "InvalidASINError", "InvalidCredentialsError", "RateLimitError",
                         "APIConnectionError", "DataExtractionError", "Exception" >>

\* The "error" tag each clause returns.
ErrorTag(clause) ==
    CASE clause = "InvalidASINError" -> "invalid_asin"
      [] clause = "InvalidCredentialsError" -> "invalid_credentials"
      [] clause = "RateLimitError" -> "rate_limit"
      [] clause = "APIConnectionError" -> "connection_error"
      [] clause = "DataExtractionError" -> "data_extraction_error"
      [] clause = "Exception" -> "unexpected_error"

\* {"error": tag, "message": str(e)}
ErrorDict(tag, e) ==
    [Body("dict", {"error", "message"}, tag, "NoneType", 0, "NoneType", FALSE, "NoneType")
        EXCEPT !.message = e.msg, !.message_last = e.last]

\* What _make_request does with the way _make_request_with_retry ended.
make_request(r) ==
    IF r.status = "returned"
    THEN Returned(r.value)
    ELSE LET clause == FirstClause(r.exc.type, MakeRequestClauses)
         IN IF clause = "uncaught"
            THEN Raised(r.exc)
            ELSE Returned(ErrorDict(ErrorTag(clause), r.exc))

MakeRequest ==
    /\ pc = "make_request"
    /\ response' = make_request(retry_result)
    /\ pc' = "scrape_product"
    /\ UNCHANGED << username, password, url, attempt, last_exception, pending,
                    responses, events, retry_result, envelope >>
    /\ UNCHANGED call_vars

---------------------------------------------------------------------------
(* extract_and_format_product_data and scrape_product *)

\* OxylabsAmazonScraper._validate_response_structure. A first result that
\* is no container fails the `"content" not in result` test itself with
\* TypeError; one that is a str or a list holding "content" fails at
\* result["content"].
validate_response_structure(b) ==
    IF b.type # "dict"
    THEN Raised(Exc("ValidationError", "Response must be a dictionary"))
    ELSE IF "error" \in b.keys
    THEN LET error_message == IF "message" \in b.keys THEN b.message ELSE "Unknown error"
             e(type) == [Exc(type, error_message) EXCEPT !.last = b.message_last]
         IN CASE b.error = "invalid_asin" -> Raised(e("InvalidASINError"))
              [] b.error = "invalid_credentials" -> Raised(e("InvalidCredentialsError"))
              [] b.error = "rate_limit" -> Raised(e("RateLimitError"))
              [] b.error = "connection_error" -> Raised(e("APIConnectionError"))
              [] OTHER -> Raised([e("DataExtractionError") EXCEPT
                                     !.fmt = "API returned error: "])
    ELSE IF "results" \notin b.keys
    THEN Raised(Exc("ValidationError", "No 'results' field found in API response"))
    ELSE IF b.results_type # "list" \/ b.results_len = 0
    THEN Raised(Exc("ValidationError", "Results field must be a non-empty list"))
    ELSE IF b.first_type \in {"int", "float", "bool", "NoneType"}
    THEN Raised(Exc("TypeError", "argument of type 'int' is not iterable"))
    ELSE IF ~b.first_has_content
    THEN Raised(Exc("ValidationError", "No 'content' field found in first result"))
    ELSE IF b.first_type # "dict"
    THEN Raised(Exc("TypeError", "indices must be integers"))
    ELSE IF b.content_type # "dict"
    THEN Raised(Exc("ValidationError", "Content field must be a dictionary"))
    ELSE Returned(b)

\* The except clauses of extract_and_format_product_data, in source order
\* (the first one names four classes).
ExtractClauses == << "InvalidASINError", "InvalidCredentialsError", "RateLimitError",
                     "APIConnectionError", "ValidationError", "DataExtractionError",
                     "Exception" >>

\* product_data["error"]: None, or the prefix the clause puts before str(e)
\* followed by str(e) (fmt, msg and last).
NoError == [prefix |-> "None", fmt |-> "", msg |-> "", last |-> NoLast]
ErrorSlot(e) ==
    LET clause == FirstClause(e.type, ExtractClauses)
    IN [prefix |-> CASE clause = "ValidationError" -> "Validation error: "
                     [] clause = "DataExtractionError" -> "Data extraction error: "
                     [] clause = "Exception" -> "Unexpected extraction error: "
                     [] OTHER -> "",
        fmt |-> e.fmt, msg |-> e.msg, last |-> e.last]

\* The key lists of the extractors, in the order the loops try them
NameKeys == << << "t", "i", "t", "l", "e" >>, << "n", "a", "m", "e" >>, << "p", "r", "o", "d", "u", "c", "t", "_", "t", "i", "t", "l", "e" >> >>
BrandKeys == << << "b", "r", "a", "n", "d" >>, << "m", "a", "n", "u", "f", "a", "c", "t", "u", "r", "e", "r" >>, << "b", "r", "a", "n", "d", "_", "n", "a", "m", "e" >> >>
DescriptionKeys == << << "d", "e", "s", "c", "r", "i", "p", "t", "i", "o", "n" >>, << "p", "r", "o", "d", "u", "c", "t", "_", "d", "e", "s", "c", "r", "i", "p", "t", "i", "o", "n" >>, << "a", "b", "o", "u", "t" >> >>
AvailabilityKeys == << << "a", "v", "a", "i", "l", "a", "b", "i", "l", "i", "t", "y" >>, << "s", "t", "o", "c", "k", "_", "s", "t", "a", "t", "u", "s" >>, << "i", "n", "_", "s", "t", "o", "c", "k" >> >>
UrlKeys == << << "u", "r", "l" >>, << "p", "r", "o", "d", "u", "c", "t", "_", "u", "r", "l" >>, << "l", "i", "n", "k" >> >>
price_keys == << << "p", "r", "i", "c", "e" >>, << "c", "u", "r", "r", "e", "n", "t", "_", "p", "r", "i", "c", "e" >>, << "s", "a", "l", "e", "_", "p", "r", "i", "c", "e" >>, << "p", "r", "i", "c", "e", "_", "c", "u", "r", "r", "e", "n", "t" >>, << "p", "r", "i", "c", "e", "_", "r", "a", "n", "g", "e" >> >>
rating_keys == << << "r", "a", "t", "i", "n", "g" >>, << "a", "v", "e", "r", "a", "g", "e", "_", "r", "a", "t", "i", "n", "g" >>, << "s", "t", "a", "r", "s" >>, << "r", "a", "t", "i", "n", "g", "_", "a", "v", "e", "r", "a", "g", "e" >> >>
review_keys == << << "r", "e", "v", "i", "e", "w", "s", "_", "c", "o", "u", "n", "t" >>, << "r", "e", "v", "i", "e", "w", "_", "c", "o", "u", "n", "t" >>, << "t", "o", "t", "a", "l", "_", "r", "e", "v", "i", "e", "w", "s" >>, << "n", "u", "m", "b", "e", "r", "_", "o", "f", "_", "r", "e", "v", "i", "e", "w", "s" >> >>
bullet_keys == << << "b", "u", "l", "l", "e", "t", "_", "p", "o", "i", "n", "t", "s" >>, << "f", "e", "a", "t", "u", "r", "e", "s" >>, << "k", "e", "y", "_", "f", "e", "a", "t", "u", "r", "e", "s" >>, << "h", "i", "g", "h", "l", "i", "g", "h", "t", "s" >>,
                  << "p", "r", "o", "d", "u", "c", "t", "_", "f", "e", "a", "t", "u", "r", "e", "s" >> >>
image_keys == << << "i", "m", "a", "g", "e", "s" >>, << "i", "m", "a", "g", "e", "_", "u", "r", "l", "s" >>, << "p", "r", "o", "d", "u", "c", "t", "_", "i", "m", "a", "g", "e", "s" >>, << "p", "h", "o", "t", "o", "s" >> >>
spec_keys == << << "s", "p", "e", "c", "i", "f", "i", "c", "a", "t", "i", "o", "n", "s" >>, << "s", "p", "e", "c", "s" >>, << "t", "e", "c", "h", "n", "i", "c", "a", "l", "_", "d", "e", "t", "a", "i", "l", "s" >>, << "p", "r", "o", "d", "u", "c", "t", "_", "d", "e", "t", "a", "i", "l", "s" >>,
                << "a", "t", "t", "r", "i", "b", "u", "t", "e", "s" >> >>

\* OxylabsAmazonScraper._safe_extract_text: a truthy value that is neither a
\* str nor a list nor a dict is passed over and the next key is tried.
RECURSIVE safe_extract_text(_, _)
safe_extract_text(content, keys) ==
    IF keys = << >>
    THEN Returned(<< >>)
    ELSE IF HasKey(content, Head(keys)) /\ Truthy(Get(content, Head(keys)))
    THEN LET value == Get(content, Head(keys))
         IN IF value.type = "str"
            THEN Returned(Strip(value.chars))
            ELSE IF value.type \in {"list", "dict"}
            THEN Returned(py_str(value))
            ELSE safe_extract_text(content, Tail(keys))
    ELSE safe_extract_text(content, Tail(keys))

\* The characters re.sub(r'[^\d.,]', '', price_value) keeps
IsPriceChar(c) == c \in Digits \cup {".", ","}
IsNotComma(c) == c # ","

\* Decimal(text) accepts a text of digits and '.': at least one digit, at
\* most one '.'.
IsDecimalLiteral(t) ==
    /\ \A i \in 1..Len(t) : t[i] \in Digits \cup {"."}
    /\ \E i \in 1..Len(t) : t[i] \in Digits
    /\ Cardinality({i \in 1..Len(t) : t[i] = "."}) <= 1

Zeros(n) == [i \in 1..n |-> "0"]

\* Variant: the text of the float of the same value, without the trailing
\* zeros of the fraction.
decimal_str_TrailingZerosDropped(t) ==
    LET dots == {i \in 1..Len(t) : t[i] = "."}
        kept == {i \in 1..Len(t) : t[i] # "0"}
        last == CHOOSE i \in kept : \A j \in kept : i >= j
    IN IF dots = {}
       THEN t
       ELSE IF t[last] = "." THEN SubSeq(t, 1, last) \o << "0" >> ELSE SubSeq(t, 1, last)

\* str(Decimal(t)) for such a text: the coefficient without leading zeros,
\* the digits after the '.' kept, and scientific notation when the value
\* has more than six leading zeros after the point.
decimal_str(t) ==
    LET dots == {i \in 1..Len(t) : t[i] = "."}
        dot == IF dots = {} THEN Len(t) + 1 ELSE CHOOSE i \in dots : TRUE
        digits == SubSeq(t, 1, dot - 1) \o SubSeq(t, dot + 1, Len(t))
        exp == 0 - (Len(t) - dot + (IF dots = {} THEN 1 ELSE 0))
        nonzero == {i \in 1..Len(digits) : digits[i] # "0"}
        coeff == IF nonzero = {}
                 THEN << "0" >>
                 ELSE SubSeq(digits, CHOOSE i \in nonzero : \A j \in nonzero : i <= j,
                             Len(digits))
        leftdigits == exp + Len(coeff)
        dotplace == IF leftdigits > 0 - 6 THEN leftdigits ELSE 1
        plain == IF dotplace <= 0
                 THEN << "0", "." >> \o Zeros(0 - dotplace) \o coeff
                 ELSE IF dotplace >= Len(coeff)
                 THEN coeff \o Zeros(dotplace - Len(coeff))
                 ELSE SubSeq(coeff, 1, dotplace) \o << "." >>
                          \o SubSeq(coeff, dotplace + 1, Len(coeff))
    IN IF leftdigits = dotplace
       THEN plain
       ELSE plain \o << "E", "-" >> \o IntChars(dotplace - leftdigits)

\* str(Decimal(str(price_value))) for an int or a float; Decimal("True")
\* raises InvalidOperation. A float is drawn with a plain repr (no
\* exponent), an infinity or a NaN.
decimal_of_number(v) ==
    IF v.type = "bool"
    THEN Raised(Exc("InvalidOperation", "ConversionSyntax"))
    ELSE LET text == py_str(v)
             negative == text # << >> /\ Head(text) = "-"
             sign == IF negative THEN << "-" >> ELSE << >>
             rest == IF negative THEN Tail(text) ELSE text
         IN IF rest = << "i", "n", "f" >> THEN Returned(sign \o << "I", "n", "f", "i", "n", "i", "t", "y" >>)
            ELSE IF rest = << "n", "a", "n" >> THEN Returned(<< "N", "a", "N" >>)
            ELSE Returned(sign \o decimal_str(rest))

\* OxylabsAmazonScraper._extract_and_format_price, on the keys still to try
RECURSIVE extract_and_format_price_from(_, _)
extract_and_format_price_from(content, keys) ==
    IF keys = << >>
    THEN Returned(<< >>)
    ELSE IF HasKey(content, Head(keys)) /\ Truthy(Get(content, Head(keys)))
    THEN LET price_value == Get(content, Head(keys))
             clean_price == SelectSeq(price_value.chars, IsPriceChar)
             no_commas == SelectSeq(clean_price, IsNotComma)
         IN IF price_value.type = "str"
            THEN IF IsDecimalLiteral(no_commas)
                 THEN Returned(decimal_str(no_commas))
                 ELSE Returned(Strip(price_value.chars))
            ELSE IF IsNumber(price_value)
            THEN decimal_of_number(price_value)
            ELSE IF price_value.type = "dict" /\ HasKey(price_value, << "v", "a", "l", "u", "e" >>)
            THEN Returned(py_str(Get(price_value, << "v", "a", "l", "u", "e" >>)))
            ELSE IF price_value.type = "dict" /\ HasKey(price_value, << "a", "m", "o", "u", "n", "t" >>)
            THEN Returned(py_str(Get(price_value, << "a", "m", "o", "u", "n", "t" >>)))
            ELSE extract_and_format_price_from(content, Tail(keys))
    ELSE extract_and_format_price_from(content, Tail(keys))

extract_and_format_price(content) == extract_and_format_price_from(content, price_keys)

\* The last position of the run of characters of class cls that starts at i
RunEnd(s, i, cls) ==
    CHOOSE j \in i..Len(s) :
        /\ \A k \in i..j : s[k] \in cls
        /\ j = Len(s) \/ s[j + 1] \notin cls

\* re.search(r'(\d+(?:\.\d+)?)', s).group(1), << >> for no match
rating_match(s) ==
    LET starts == {i \in 1..Len(s) : s[i] \in Digits}
    IN IF starts = {}
       THEN << >>
       ELSE LET i == CHOOSE k \in starts : \A m \in starts : k <= m
                j == RunEnd(s, i, Digits)
            IN IF j + 2 <= Len(s) /\ s[j + 1] = "." /\ s[j + 2] \in Digits
               THEN SubSeq(s, i, RunEnd(s, j + 2, Digits))
               ELSE SubSeq(s, i, j)

\* OxylabsAmazonScraper._extract_rating, on the keys still to try
RECURSIVE extract_rating_from(_, _)
extract_rating_from(content, keys) ==
    IF keys = << >>
    THEN Returned(<< >>)
    ELSE IF HasKey(content, Head(keys)) /\ Get(content, Head(keys)).type # "NoneType"
    THEN LET rating_value == Get(content, Head(keys))
         IN IF rating_value.type = "str"
            THEN IF rating_match(rating_value.chars) # << >>
                 THEN Returned(rating_match(rating_value.chars))
                 ELSE Returned(Strip(rating_value.chars))
            ELSE IF IsNumber(rating_value)
            THEN Returned(py_str(rating_value))
            ELSE IF rating_value.type = "dict" /\ HasKey(rating_value, << "v", "a", "l", "u", "e" >>)
            THEN Returned(py_str(Get(rating_value, << "v", "a", "l", "u", "e" >>)))
            ELSE extract_rating_from(content, Tail(keys))
    ELSE extract_rating_from(content, Tail(keys))

extract_rating(content) == extract_rating_from(content, rating_keys)

\* re.search(r'([\d,]+)', s).group(1).replace(',', ''); << "," >>, which no
\* result can be once the commas are removed, stands for no match
count_match(s) ==
    LET cls == Digits \cup {","}
        starts == {i \in 1..Len(s) : s[i] \in cls}
    IN IF starts = {}
       THEN << "," >>
       ELSE LET i == CHOOSE k \in starts : \A m \in starts : k <= m
            IN SelectSeq(SubSeq(s, i, RunEnd(s, i, cls)), IsNotComma)

\* OxylabsAmazonScraper._extract_reviews_count, on the keys still to try;
\* int(inf) raises OverflowError and int(nan) ValueError.
RECURSIVE extract_reviews_count_from(_, _)
extract_reviews_count_from(content, keys) ==
    IF keys = << >>
    THEN Returned(<< >>)
    ELSE IF HasKey(content, Head(keys)) /\ Get(content, Head(keys)).type # "NoneType"
    THEN LET review_value == Get(content, Head(keys))
         IN IF review_value.type = "str"
            THEN IF count_match(review_value.chars) # << "," >>
                 THEN Returned(count_match(review_value.chars))
                 ELSE Returned(Strip(review_value.chars))
            ELSE IF IsNumber(review_value)
            THEN IF IsFinite(review_value)
                 THEN Returned(IntChars(review_value.num))
                 ELSE IF review_value.chars = << "n", "a", "n" >>
                 THEN Raised(Exc("ValueError", "cannot convert float NaN to integer"))
                 ELSE Raised(Exc("OverflowError", "cannot convert float infinity to integer"))
            ELSE extract_reviews_count_from(content, Tail(keys))
    ELSE extract_reviews_count_from(content, Tail(keys))

extract_reviews_count(content) == extract_reviews_count_from(content, review_keys)

NonEmpty(x) == x # << >>

\* The characters re.split(r'[\n•▪▫◦‣⁃]', bullet_value) splits at
BulletDelims == {"\n", "U+2022", "U+25AA", "U+25AB", "U+25E6", "U+2023", "U+2043"}

\* The pieces of s between the characters of delims
RECURSIVE Split(_, _)
Split(s, delims) ==
    LET stops == {i \in 1..Len(s) : s[i] \in delims}
    IN IF stops = {}
       THEN << s >>
       ELSE LET i == CHOOSE k \in stops : \A m \in stops : k <= m
            IN << SubSeq(s, 1, i - 1) >> \o Split(SubSeq(s, i + 1, Len(s)), delims)

\* OxylabsAmazonScraper._extract_bullet_points, on the keys still to try
RECURSIVE extract_bullet_points_from(_, _)
extract_bullet_points_from(content, keys) ==
    IF keys = << >>
    THEN Returned(<< >>)
    ELSE IF HasKey(content, Head(keys)) /\ Truthy(Get(content, Head(keys)))
    THEN LET bullet_value == Get(content, Head(keys))
             kept == SelectSeq(bullet_value.items, Truthy)
             points == Split(bullet_value.chars, BulletDelims)
         IN IF bullet_value.type = "list"
            THEN Returned([i \in 1..Len(kept) |-> Strip(py_str(kept[i]))])
            ELSE IF bullet_value.type = "str"
            THEN Returned(SelectSeq([i \in 1..Len(points) |-> Strip(points[i])], NonEmpty))
            ELSE extract_bullet_points_from(content, Tail(keys))
    ELSE extract_bullet_points_from(content, Tail(keys))

extract_bullet_points(content) == extract_bullet_points_from(content, bullet_keys)

\* OxylabsAmazonScraper._extract_images, on the keys still to try
RECURSIVE extract_images_from(_, _)
extract_images_from(content, keys) ==
    IF keys = << >>
    THEN Returned(<< >>)
    ELSE IF HasKey(content, Head(keys)) /\ Truthy(Get(content, Head(keys)))
    THEN LET image_value == Get(content, Head(keys))
             kept == SelectSeq(image_value.items, Truthy)
         IN IF image_value.type = "list"
            THEN Returned([i \in 1..Len(kept) |-> py_str(kept[i])])
            ELSE IF image_value.type = "str"
            THEN Returned(<< image_value.chars >>)
            ELSE extract_images_from(content, Tail(keys))
    ELSE extract_images_from(content, Tail(keys))

extract_images(content) == extract_images_from(content, image_keys)

\* spec_dict[key] = value: an existing key keeps its place
SetItem(pairs, k, v) ==
    IF \E i \in 1..Len(pairs) : pairs[i].key = k
    THEN [i \in 1..Len(pairs) |-> IF pairs[i].key = k THEN Pair(k, v) ELSE pairs[i]]
    ELSE Append(pairs, Pair(k, v))

\* spec_dict.update(item)
RECURSIVE Update(_, _)
Update(pairs, new) ==
    IF new = << >>
    THEN pairs
    ELSE Update(SetItem(pairs, Head(new).key, Head(new).val), Tail(new))

\* The loop over a list of specifications: a dict is merged in, a str
\* holding ':' is split at its first ':' into a key and a value.
RECURSIVE spec_dict_of(_, _)
spec_dict_of(items, spec_dict) ==
    IF items = << >>
    THEN spec_dict
    ELSE LET item == Head(items)
             key_val == Split(item.chars, {":"})
             colon == Len(key_val[1]) + 1
         IN IF item.type = "dict"
            THEN spec_dict_of(Tail(items), Update(spec_dict, item.items))
            ELSE IF item.type = "str" /\ Len(key_val) > 1
            THEN spec_dict_of(Tail(items),
                              SetItem(spec_dict, Strip(key_val[1]),
                                      PyStr(Strip(SubSeq(item.chars, colon + 1,
                                                         Len(item.chars))))))
            ELSE spec_dict_of(Tail(items), spec_dict)

\* OxylabsAmazonScraper._extract_specifications, on the keys still to try
RECURSIVE extract_specifications_from(_, _)
extract_specifications_from(content, keys) ==
    IF keys = << >>
    THEN Returned(PyDict(<< >>))
    ELSE IF HasKey(content, Head(keys)) /\ Truthy(Get(content, Head(keys)))
    THEN LET spec_value == Get(content, Head(keys))
         IN IF spec_value.type = "dict"
            THEN Returned(spec_value)
            ELSE IF spec_value.type = "list"
            THEN Returned(PyDict(spec_dict_of(spec_value.items, << >>)))
            ELSE extract_specifications_from(content, Tail(keys))
    ELSE extract_specifications_from(content, Tail(keys))

extract_specifications(content) == extract_specifications_from(content, spec_keys)

\* Variant: product_data carries no time stamp.
InitialProductData_NoStamp(now) ==
    [name |-> << >>, brand |-> << >>, price |-> << >>, rating |-> << >>,
     reviews_count |-> << >>, description |-> << >>, bullet_points |-> << >>,
     images |-> << >>, specifications |-> PyDict(<< >>), availability |-> << >>,
     url |-> << >>, scraped_at |-> << >>, error |-> NoError]

\* The product_data extract_and_format_product_data starts from; now is
\* time.strftime("%Y-%m-%d %H:%M:%S") at the call.
InitialProductData(now) ==
    [name |-> << >>, brand |-> << >>, price |-> << >>, rating |-> << >>,
     reviews_count |-> << >>, description |-> << >>, bullet_points |-> << >>,
     images |-> << >>, specifications |-> PyDict(<< >>), availability |-> << >>,
     url |-> << >>, scraped_at |-> now, error |-> NoError]

\* The clause around each extractor: `except Exception`
FieldClauses == << "Exception" >>

\* Variant: the extractor is called outside any try, so its exception
\* leaves the block of extractors.
SetField_Unguarded(acc, field, r) ==
    IF acc.status = "raised"
    THEN acc
    ELSE IF r.status = "returned"
    THEN Returned([acc.value EXCEPT ![field] = r.value])
    ELSE [Raised(r.exc) EXCEPT !.value = acc.value]

\* try: product_data[field] = <extractor>(content)
\* except Exception as e: logger.warning(...)
\* acc is the product_data so far, r how the extractor ended.
SetField(acc, field, r) ==
    IF acc.status = "raised"
    THEN acc
    ELSE IF r.status = "returned"
    THEN Returned([acc.value EXCEPT ![field] = r.value])
    ELSE IF FirstClause(r.exc.type, FieldClauses) = "uncaught"
    THEN [Raised(r.exc) EXCEPT !.value = acc.value]
    ELSE acc

\* The extractor of each field of product_data
Extractor(field, content) ==
    CASE field = "name" -> safe_extract_text(content, NameKeys)
      [] field = "brand" -> safe_extract_text(content, BrandKeys)
      [] field = "price" -> extract_and_format_price(content)
      [] field = "rating" -> extract_rating(content)
      [] field = "reviews_count" -> extract_reviews_count(content)
      [] field = "description" -> safe_extract_text(content, DescriptionKeys)
      [] field = "bullet_points" -> extract_bullet_points(content)
      [] field = "images" -> extract_images(content)
      [] field = "specifications" -> extract_specifications(content)
      [] field = "availability" -> safe_extract_text(content, AvailabilityKeys)
      [] field = "url" -> safe_extract_text(content, UrlKeys)

\* The fields in the order their extractors are called
ExtractionOrder == << "name", "brand", "price", "rating", "reviews_count", "description",
                      "bullet_points", "images", "specifications", "availability", "url" >>

\* The block of eleven guarded extractor calls, from the i-th on
RECURSIVE extract_fields_from(_, _, _)
extract_fields_from(content, acc, i) ==
    IF i > Len(ExtractionOrder)
    THEN acc
    ELSE extract_fields_from(content,
                             SetField(acc, ExtractionOrder[i],
                                      Extractor(ExtractionOrder[i], content)),
                             i + 1)

extract_fields(content, product_data) ==
    extract_fields_from(content, Returned(product_data), 1)

\* The six fields _validate_extracted_data requires and fields_extracted
\* counts
PrimaryFields == {"name", "brand", "price", "rating", "reviews_count", "description"}

\* OxylabsAmazonScraper._validate_extracted_data: a missing required key
\* raises; the format checks only log (their ValueError is caught).
validate_extracted_data(product_data) ==
    IF \E field \in PrimaryFields : field \notin DOMAIN product_data
    THEN Raised(Exc("ValidationError", "Missing required field"))
    ELSE Returned(product_data)

\* Variant: `x or default` left out.
OrDefault_KeepEmpty(value, default) == value

\* product_data[key] or default
OrDefault(value, default) == IF value # << >> THEN value ELSE default

\* "\n".join([f"• {point}" for point in bullet_points])
RECURSIVE bullet_points_text(_)
bullet_points_text(points) ==
    IF points = << >>
    THEN << >>
    ELSE << "U+2022", " " >> \o Head(points)
            \o (IF Len(points) = 1
                THEN << >>
                ELSE << "\n" >> \o bullet_points_text(Tail(points)))

\* Variant: `not product_data["error"]`, which an empty message also passes.
ExtractionSuccessful_Falsy(error) ==
    error = NoError \/ (error.prefix = "" /\ error.fmt = "" /\ error.msg = "" /\ error.last = NoLast)

\* product_data["error"] is None
ExtractionSuccessful(error) == error = NoError

\* Variant: the fields whose value differs from the default are counted.
FieldsExtracted_NonDefault(product_data) ==
    Cardinality({f \in {"name", "brand"} : product_data[f] \notin {<< >>, << "U", "n", "k", "n", "o", "w", "n" >>}})
    + Cardinality({f \in {"rating", "reviews_count"} : product_data[f] \notin {<< >>, << "0" >>}})
    + (IF product_data.price \notin {<< >>, << "0", ".", "0", "0" >>} THEN 1 ELSE 0)
    + (IF product_data.description # << >> THEN 1 ELSE 0)

\* sum(1 for key in [...six fields...] if product_data[key])
FieldsExtracted(product_data) ==
    Cardinality({key \in PrimaryFields : product_data[key] # << >>})

\* OxylabsAmazonScraper._create_clean_json_structure
create_clean_json_structure(product_data) ==
    [product |->
        [name |-> OrDefault(product_data.name, << "U", "n", "k", "n", "o", "w", "n" >>),
         brand |-> OrDefault(product_data.brand, << "U", "n", "k", "n", "o", "w", "n" >>),
         price |-> OrDefault(product_data.price, << "0", ".", "0", "0" >>),
         rating |-> OrDefault(product_data.rating, << "0" >>),
         reviews_count |-> OrDefault(product_data.reviews_count, << "0" >>),
         description |-> product_data.description,
         bullet_points |-> bullet_points_text(product_data.bullet_points),
         features |-> product_data.bullet_points,
         images |-> product_data.images,
         specifications |-> product_data.specifications,
         availability |-> product_data.availability,
         url |-> StrValue(product_data.url),
         scraped_at |-> product_data.scraped_at],
     metadata |->
        [extraction_successful |-> ExtractionSuccessful(product_data.error),
         error_message |-> product_data.error,
         fields_extracted |-> FieldsExtracted(product_data)]]

\* Variant: the extractors run on whatever content the payload holds, also
\* when the structural validation has raised.
extract_after_validation_ExtractAnyway(b, product_data, v) ==
    IF v.status = "raised"
    THEN [v EXCEPT !.value = IF b.content.type = "dict"
                             THEN extract_fields(b.content, product_data).value
                             ELSE product_data]
    ELSE extract_fields(b.content, product_data)

\* What the try block of extract_and_format_product_data has reached after
\* self._validate_response_structure(oxylabs_response), which ended as v:
\* its exception leaves the block with product_data untouched, otherwise
\* the eleven guarded extractors run on results[0]["content"].
extract_after_validation(b, product_data, v) ==
    IF v.status = "raised"
    THEN [v EXCEPT !.value = product_data]
    ELSE extract_fields(b.content, product_data)

\* self._validate_extracted_data(product_data), last statement of the try
\* block; x is how the block went so far, its value the product_data built.
validate_after_extraction(x) ==
    IF x.status = "raised"
    THEN x
    ELSE [validate_extracted_data(x.value) EXCEPT !.value = x.value]

\* The outer except clauses and the return: an exception d.exc of the try
\* block is turned into the error slot of the product_data built so far.
return_clean_structure(d) ==
    IF d.status = "raised" /\ FirstClause(d.exc.type, ExtractClauses) = "uncaught"
    THEN Raised(d.exc)
    ELSE Returned(create_clean_json_structure(
                     IF d.status = "raised"
                     THEN [d.value EXCEPT !.error = ErrorSlot(d.exc)]
                     ELSE d.value))

\* extract_and_format_product_data at time now
extract_and_format_product_data(b, now) ==
    return_clean_structure(
        validate_after_extraction(
            extract_after_validation(b, InitialProductData(now),
                                     validate_response_structure(b))))

\* Variant: a url found in the content is kept.
with_product_url_KeepExtracted(x, product_url) ==
    IF x.status = "raised"
    THEN x
    ELSE IF x.value.product.url.chars # << >>
    THEN x
    ELSE Returned([x.value EXCEPT !.product.url = product_url])

\* product_data["product"]["url"] = product_url; return product_data
with_product_url(x, product_url) ==
    IF x.status = "raised"
    THEN x
    ELSE Returned([x.value EXCEPT !.product.url = product_url])

\* scrape_product: response = self._make_request(...);
\* product_data = self.extract_and_format_product_data(response);
\* product_data["product"]["url"] = product_url
scrape_product(resp, product_url, now) ==
    IF resp.status = "raised"
    THEN Raised(resp.exc)
    ELSE with_product_url(extract_and_format_product_data(resp.value, now), product_url)

ScrapeProduct ==
    /\ pc = "scrape_product"
    /\ \E now \in Times : envelope' = scrape_product(response, url, now)
    /\ pc' = "done"
    /\ UNCHANGED << username, password, url, attempt, last_exception, pending,
                    responses, events, retry_result, response >>
    /\ UNCHANGED call_vars

---------------------------------------------------------------------------
(* Specification *)

Init ==
    /\ username \in Credentials
    /\ password \in Credentials
    /\ url \in Urls
    /\ pc = "validate_credentials"
    /\ attempt = 0
    /\ last_exception = NoLast
    /\ pending \in Outcomes
    /\ responses = << >>
    /\ events = << >>
    /\ retry_result = Running
    /\ response = Running
    /\ envelope = Running
    /\ called = "none"
    /\ input = NoneValue
    /\ output = Running

Next ==
    \/ ValidateCredentials
    \/ ExtractAsin
    \/ RequestSucceeds
    \/ HandleTimeout
    \/ HandleHTTPError
    \/ HandleConnectionError
    \/ HandleRequestException
    \/ HandleJSONDecodeError
    \/ HandleException
    \/ RaiseAfterRetries
    \/ MakeRequest
    \/ ScrapeProduct

Spec == Init /\ [][Next]_vars

---------------------------------------------------------------------------
(* Observations used by the properties *)

IsPost(e) == e.op = "post"
IsSleep(e) == e.op = "sleep"

\* Number of upstream POST calls issued so far
PostCount == Len(SelectSeq(events, IsPost))

\* Durations of the time.sleep calls made so far, in order
Sleeps == LET ss == SelectSeq(events, IsSleep) IN [i \in 1..Len(ss) |-> ss[i].arg]

\* _make_request_with_retry has returned or raised
Ended == retry_result.status # "running"

RaisedType(t) == retry_result.status = "raised" /\ retry_result.exc.type = t

\* _make_request has returned the error dict with this tag
ErrorTagIs(tag) ==
    /\ response.status = "returned"
    /\ response.value.type = "dict"
    /\ "error" \in response.value.keys
    /\ response.value.error = tag

\* Kinds of failed attempts
IsTimeout(o) == o.exc = "Timeout"
IsConnectionError(o) == o.exc = "ConnectionError"
Is5xx(o) == o.exc = "HTTPError" /\ o.status >= 500 /\ o.status <= 599
Is429(o) == o.exc = "HTTPError" /\ o.status = 429
Is401(o) == o.exc = "HTTPError" /\ o.status = 401
IsOtherClientError(o) ==
    o.exc = "HTTPError" /\ o.status >= 400 /\ o.status <= 499 /\ o.status \notin {401, 429}
IsJSONDecodeFailure(o) == o.exc \in {"JSONDecodeError", "RequestsJSONDecodeError"}
IsSuccess(o) == o.exc = "none"

IsRetryableFailure(o) == IsTimeout(o) \/ IsConnectionError(o) \/ Is5xx(o) \/ Is429(o)
IsServerClassFailure(o) == IsTimeout(o) \/ IsConnectionError(o) \/ Is5xx(o)

CredentialInvalid(c) == c.none \/ c.len < 3
CredentialsPass == ~CredentialInvalid(username) /\ ~CredentialInvalid(password)
UrlHasIdentifier ==
    /\ url.type = "str"
    /\ \E k \in 1..Len(asin_patterns) : re_search(asin_patterns[k], url.chars) # << >>

---------------------------------------------------------------------------
(* C1: a call of _make_request_with_retry whose credentials and URL pass    *)
(* validation never issues more than 3 upstream POSTs, and has issued at    *)
(* least 1 by the time it returns or raises.                                *)
C1_BetweenOneAndThreeCalls ==
    (CredentialsPass /\ UrlHasIdentifier) =>
        /\ PostCount <= 3
        /\ Ended => PostCount >= 1

C1_Witness == CredentialsPass /\ UrlHasIdentifier /\ Ended /\ PostCount = 3

(* C2: when attempts 1..k-1 fail with a retryable failure (timeout,         *)
(* connection error, 5xx, 429) the fetch is still running with k-1 calls    *)
(* and k-1 sleeps behind it, and when attempt k (k <= 3) then succeeds the  *)
(* fetch returns attempt k's parsed payload after exactly k calls and k-1   *)
(* sleeps.                                                                  *)
C2_SuccessAfterRetryableFailures ==
    LET k == Len(responses)
    IN /\ (k \in 1..2 /\ \A i \in 1..k : IsRetryableFailure(responses[i])) =>
            /\ pc = "attempt" /\ ~Ended
            /\ PostCount = k /\ Len(Sleeps) = k
       /\ (k >= 1 /\ IsSuccess(responses[k])
              /\ \A i \in 1..(k - 1) : IsRetryableFailure(responses[i])) =>
            /\ k <= 3
            /\ retry_result = Returned(responses[k].body)
            /\ PostCount = k /\ Len(Sleeps) = k - 1

C2_Witness ==
    /\ Len(responses) = 3
    /\ Is429(responses[1]) /\ IsTimeout(responses[2]) /\ IsSuccess(responses[3])
    /\ retry_result = Returned(BodyValid)

(* C3: three consecutive failures of kind 5xx, timeout or connection error  *)
(* end the fetch with APIConnectionError (tag "connection_error") after     *)
(* exactly 3 attempts; a timeout or 5xx on attempt 1 or 2 does not end it.  *)
C3_ExhaustedRetries ==
    LET k == Len(responses)
    IN /\ (k = 3 /\ \A i \in 1..3 : IsServerClassFailure(responses[i])) =>
            /\ PostCount = 3
            /\ pc # "attempt"
            /\ Ended => RaisedType("APIConnectionError")
            /\ pc \in {"scrape_product", "done"} => ErrorTagIs("connection_error")
       /\ (k \in 1..2 /\ (IsTimeout(responses[k]) \/ Is5xx(responses[k]))) =>
            pc = "attempt" /\ ~Ended

C3_Witness ==
    /\ Len(responses) = 3
    /\ Is5xx(responses[1]) /\ IsTimeout(responses[2]) /\ IsConnectionError(responses[3])
    /\ pc = "done" /\ ErrorTagIs("connection_error")

(* C4: three consecutive 429 responses end the fetch with RateLimitError    *)
(* (tag "rate_limit") after exactly 3 calls and exactly 2 sleeps, of 2 and  *)
(* then 4 seconds.                                                          *)
C4_RateLimitTerminal ==
    (Len(responses) = 3 /\ \A i \in 1..3 : Is429(responses[i])) =>
        /\ RaisedType("RateLimitError")
        /\ PostCount = 3
        /\ Sleeps = << 2, 4 >>
        /\ Sleeps[2] > Sleeps[1]
        /\ pc \in {"scrape_product", "done"} => ErrorTagIs("rate_limit")

C4_Witness ==
    /\ Len(responses) = 3 /\ \A i \in 1..3 : Is429(responses[i])
    /\ pc = "done" /\ ErrorTagIs("rate_limit")

(* C5: a non-retryable failure on any attempt (HTTP 401, another 4xx that   *)
(* is not 429, or a JSON decode failure of the response body) ends the      *)
(* fetch at that attempt, with no further POST and no sleep after it; a 401 *)
(* is raised as InvalidCredentialsError ("invalid_credentials") and a JSON  *)
(* decode failure as DataExtractionError ("data_extraction_error").         *)
C5_NonRetryableEndsFetch ==
    \A i \in 1..Len(responses) :
        (Is401(responses[i]) \/ IsOtherClientError(responses[i])
            \/ IsJSONDecodeFailure(responses[i])) =>
            /\ i = Len(responses)
            /\ Ended
            /\ PostCount = i
            /\ IsPost(events[Len(events)])
            /\ Len(Sleeps) = i - 1
            /\ Is401(responses[i]) =>
                  /\ RaisedType("InvalidCredentialsError")
                  /\ pc \in {"scrape_product", "done"} => ErrorTagIs("invalid_credentials")
            /\ IsJSONDecodeFailure(responses[i]) =>
                  /\ RaisedType("DataExtractionError")
                  /\ pc \in {"scrape_product", "done"} => ErrorTagIs("data_extraction_error")

(* C6: _make_request never raises: once it has ended it has returned either *)
(* the payload _make_request_with_retry returned or an error dict whose tag *)
(* is one of the six known tags, with the exception's message; and          *)
(* scrape_product then returns an envelope (product + metadata) and never   *)
(* raises.                                                                  *)
ErrorTags == {"invalid_asin", "invalid_credentials", "rate_limit", "connection_error",
              "data_extraction_error", "unexpected_error"}

C6_NeverRaises ==
    /\ response.status # "raised"
    /\ envelope.status # "raised"
    /\ pc \in {"scrape_product", "done"} =>
          /\ response.status = "returned"
          /\ retry_result.status = "returned" => response.value = retry_result.value
          /\ retry_result.status = "raised" =>
                /\ response.value.type = "dict"
                /\ response.value.keys = {"error", "message"}
                /\ response.value.error \in ErrorTags
                /\ response.value.message = retry_result.exc.msg
    /\ pc = "done" =>
          /\ envelope.status = "returned"
          /\ DOMAIN envelope.value = {"product", "metadata"}

C6_Witness ==
    /\ pc = "done"
    /\ RaisedType("TypeError")
    /\ ErrorTagIs("unexpected_error")
    /\ envelope.status = "returned"
    /\ ~envelope.value.metadata.extraction_successful

(* C7: the preconditions are checked before any network call, credentials   *)
(* first: with a credential that is empty or shorter than 3 characters the  *)
(* fetch fails with InvalidCredentialsError whatever the URL is; otherwise  *)
(* with a URL that holds no identifier it fails with InvalidASINError; in   *)
(* both cases no POST and no sleep is made.                                 *)
C7_PreconditionsBeforeNetwork ==
    /\ (pc # "validate_credentials" /\ ~CredentialsPass) =>
          /\ RaisedType("InvalidCredentialsError")
          /\ events = << >> /\ responses = << >>
          /\ pc \in {"scrape_product", "done"} => ErrorTagIs("invalid_credentials")
    /\ (pc \notin {"validate_credentials", "extract_asin"}
            /\ CredentialsPass /\ url.type = "str" /\ ~UrlHasIdentifier) =>
          /\ RaisedType("InvalidASINError")
          /\ events = << >> /\ responses = << >>
          /\ pc \in {"scrape_product", "done"} => ErrorTagIs("invalid_asin")
    /\ (events # << >> \/ responses # << >>) => (CredentialsPass /\ UrlHasIdentifier)

\* both preconditions fail: the credentials are reported
C7_Witness ==
    /\ pc = "done"
    /\ ~username.none /\ username.len = 2
    /\ url = UrlTooShort
    /\ ErrorTagIs("invalid_credentials")
    /\ events = << >>

C7_WitnessAsin ==
    /\ pc = "done"
    /\ CredentialsPass
    /\ url = UrlLowercase
    /\ ErrorTagIs("invalid_asin")
    /\ events = << >>

(* C8: after a retryable failure on attempt k (0-based, k = 0 or 1) the     *)
(* sleep that follows the POST lasts 1 then 2 seconds for a timeout, a      *)
(* connection error, a 5xx or another request failure, and 2 then 4 seconds *)
(* for a 429, and attempt k+1 follows it; nothing is slept after the third  *)
(* attempt, and nothing is slept except directly after a POST.              *)
IsGenericRetryable(o) ==
    IsTimeout(o) \/ IsConnectionError(o) \/ Is5xx(o) \/ o.exc = "RequestException"

\* the i-th event is the POST of attempt events[i].arg, answered by
\* responses[events[i].arg + 1]
C8_BackoffSchedule ==
    \A i \in 1..Len(events) :
        /\ IsPost(events[i]) =>
              LET k == events[i].arg
                  o == responses[k + 1]
              IN /\ (k \in {0, 1} /\ IsGenericRetryable(o)) =>
                        /\ i < Len(events)
                        /\ events[i + 1] = SleepEvent(<< 1, 2 >>[k + 1])
                        /\ pc = "attempt" \/ Len(events) > i + 1
                 /\ (k \in {0, 1} /\ Is429(o)) =>
                        /\ i < Len(events)
                        /\ events[i + 1] = SleepEvent(<< 2, 4 >>[k + 1])
                        /\ pc = "attempt" \/ Len(events) > i + 1
                 /\ k = 2 => i = Len(events)
        /\ IsSleep(events[i]) => (i > 1 /\ IsPost(events[i - 1]))
        /\ (IsSleep(events[i]) /\ i < Len(events)) => events[i + 1] = PostEvent(events[i - 1].arg + 1)

C8_Witness ==
    /\ pc = "done"
    /\ Len(responses) = 3
    /\ IsTimeout(responses[1]) /\ Is429(responses[2]) /\ Is5xx(responses[3])
    /\ Sleeps = << 1, 4 >>

(* C9: when the upstream answers three consecutive 5xx failures and would   *)
(* answer a success next, the fetch makes exactly 3 POSTs (the success is   *)
(* never asked for) and exactly 2 sleeps, the second longer than the first. *)
C9_ThreeServerErrorsThenSuccess ==
    (Len(responses) >= 3 /\ \A i \in 1..3 : Is5xx(responses[i]) /\ IsSuccess(pending)) =>
        /\ Len(responses) = 3
        /\ PostCount = 3
        /\ pc # "attempt"
        /\ Len(Sleeps) = 2
        /\ Sleeps[2] > Sleeps[1]

C9_Witness ==
    /\ pc = "done"
    /\ Len(responses) = 3 /\ \A i \in 1..3 : Is5xx(responses[i])
    /\ IsSuccess(pending)
    /\ PostCount = 3 /\ Len(Sleeps) = 2

(* C10 as claimed: the attempts are issued one after another, and each      *)
(* backoff sleep is strictly longer than the sleep before it.               *)
AttemptsSequential ==
    LET posts == SelectSeq(events, IsPost)
    IN /\ \A i \in 1..Len(posts) : posts[i].arg = i - 1
       /\ \A i \in 1..(Len(events) - 1) : IsPost(events[i]) => IsSleep(events[i + 1])
       /\ \A i \in 1..(Len(events) - 1) : IsSleep(events[i]) => IsPost(events[i + 1])
       /\ Len(posts) = Len(responses)

C10_StrictlyIncreasingBackoff ==
    /\ AttemptsSequential
    /\ \A i \in 1..(Len(Sleeps) - 1) : Sleeps[i + 1] > Sleeps[i]

(* C10 amended: the attempts are issued one after another, and each backoff *)
(* sleep is at least as long as the sleep before it; it is strictly longer  *)
(* unless the earlier failure was a 429 and the later one was not.          *)
C10_NonDecreasingBackoff ==
    /\ AttemptsSequential
    /\ \A i \in 1..(Len(Sleeps) - 1) :
          /\ Sleeps[i + 1] >= Sleeps[i]
          /\ ~(Is429(responses[i]) /\ ~Is429(responses[i + 1])) => Sleeps[i + 1] > Sleeps[i]

C10_Witness ==
    /\ Len(responses) >= 2
    /\ Is429(responses[1]) /\ Is5xx(responses[2])
    /\ Sleeps = << 2, 2 >>

C12_TerminalCauseIsThirdAttempt ==
    (Len(responses) = 3 /\ \A i \in 1..3 : IsRetryableFailure(responses[i])) =>
        /\ pc # "attempt"
        /\ Ended =>
              /\ RaisedType("RateLimitError") <=> Is429(responses[3])
              /\ ~Is429(responses[3]) =>
                    /\ RaisedType("APIConnectionError")
                    /\ retry_result.exc.last # NoLast
                    /\ retry_result.exc.last =
                          LastInfo(responses[3].exc, responses[3].status, 2)
        /\ (pc \in {"scrape_product", "done"} /\ ~Is429(responses[3])) =>
              /\ ErrorTagIs("connection_error")
              /\ response.value.message_last.attempt = 2
        /\ (pc \in {"scrape_product", "done"} /\ Is429(responses[3])) =>
              ErrorTagIs("rate_limit")

\* two rate limits, then a server error on the third attempt
C12_Witness ==
    /\ pc = "done"
    /\ Len(responses) = 3
    /\ Is429(responses[1]) /\ Is429(responses[2]) /\ Is5xx(responses[3])
    /\ ErrorTagIs("connection_error")
    /\ response.value.message_last = LastInfo("HTTPError", responses[3].status, 2)

---------------------------------------------------------------------------
(* _extract_asin_from_url applied on its own to URLs of the four shapes *)

\* Bound: the most characters a drawn path segment has after its first one
MaxTailLen == 10

\* A scraper on which no fetch is in progress
NoFetch ==
    /\ username = [none |-> TRUE, len |-> 0]
    /\ password = [none |-> TRUE, len |-> 0]
    /\ url = NoneValue
    /\ pc = "idle"
    /\ attempt = 0
    /\ last_exception = NoLast
    /\ pending = Outcome("none", 200, NoBody)
    /\ responses = << >>
    /\ events = << >>
    /\ retry_result = Running
    /\ response = Running
    /\ envelope = Running

\* A second identifier, different from SampleAsin
OtherAsin == << "B", "0", "0", "0", "0", "0", "0", "0", "0", "1" >>

\* The first character of a drawn segment: the right prefix, a wrong
\* uppercase one, a lowercase one.
SegmentFirsts == {"B", "A", "b"}

\* A character outside [0-9A-Z] put into a segment: lowercase, punctuation.
SegmentFlaws == {"a", "-"}

\* n characters "1", the p-th of them replaced by c (none when p = 0)
SegmentTail(n, p, c) == [i \in 1..n |-> IF i = p THEN c ELSE "1"]

\* The path segments drawn: every length from 0 to 1 + MaxTailLen, with at
\* most one character outside the identifier alphabet.
Segments ==
    {<< >>} \cup
    UNION {UNION {{<< f >> \o SegmentTail(n, p, c) : f \in SegmentFirsts, c \in SegmentFlaws} :
                     p \in 0..n} : n \in 0..MaxTailLen}

\* The text that brings a segment into the shape of pattern k; the query
\* parameter follows a "?".
ShapePrefix(k) ==
    IF k = Len(asin_patterns) THEN << "?" >> \o asin_patterns[k] ELSE asin_patterns[k]

\* What follows the segment in the URL
Suffixes == {<< >>, << "/", "r", "e", "f" >>, << "?", "t", "a", "g", "=", "x" >>}

\* A segment in each of the four shapes
SegmentUrls ==
    {StrValue(Host \o ShapePrefix(k) \o seg \o suf) :
        k \in 1..Len(asin_patterns), seg \in Segments, suf \in Suffixes}

\* Two identifiers in two shapes, in either order
TwoShapeUrls ==
    {StrValue(Host \o ShapePrefix(k1) \o a1 \o ShapePrefix(k2) \o a2) :
        k1 \in 1..Len(asin_patterns), k2 \in 1..Len(asin_patterns),
        a1 \in {SampleAsin, OtherAsin}, a2 \in {SampleAsin, OtherAsin}}

AsinUrls == SegmentUrls \cup TwoShapeUrls

InitAsin ==
    /\ NoFetch
    /\ called = "extract_asin_from_url"
    /\ input \in AsinUrls
    /\ output = Running

\* asin = self._extract_asin_from_url(url)
CallExtractAsin ==
    /\ called = "extract_asin_from_url"
    /\ output = Running
    /\ output' = extract_asin_from_url(input)
    /\ UNCHANGED << called, input >>
    /\ UNCHANGED fetch_vars

NextAsin == CallExtractAsin

SpecAsin == InitAsin /\ [][NextAsin]_vars

\* The characters that end a path segment or a query value
Delims == {"/", "?", "&", "#", "="}

\* The literal text of pattern k stands in s at position i
PrefixAt(k, s, i) ==
    /\ i + Len(asin_patterns[k]) - 1 <= Len(s)
    /\ \A j \in 1..Len(asin_patterns[k]) : s[i + j - 1] = asin_patterns[k][j]

\* The complete segment of s that starts at position from: up to the next
\* delimiter or the end of s
SegmentFrom(s, from) ==
    LET stops == {j \in from..Len(s) : s[j] \in Delims}
        end == IF stops = {}
               THEN Len(s)
               ELSE (CHOOSE j \in stops : \A m \in stops : j <= m) - 1
    IN SubSeq(s, from, end)

\* The segments of s that stand where one of the four shapes puts the
\* identifier
IdentifierSegments(s) ==
    {SegmentFrom(s, q[2] + Len(asin_patterns[q[1]])) :
        q \in {r \in (1..Len(asin_patterns)) \X (1..Len(s)) : PrefixAt(r[1], s, r[2])}}

\* 'B' followed by 9 characters of [0-9A-Z], and nothing else
IsIdentifier(seg) ==
    /\ Len(seg) = 10
    /\ seg[1] = "B"
    /\ \A j \in 2..10 : seg[j] \in AsinChars

ExtractAsinEnded == called = "extract_asin_from_url" /\ output.status # "running"

(* C13: when no segment standing in one of the four shapes is exactly 'B'   *)
(* followed by 9 characters of [0-9A-Z], _extract_asin_from_url raises      *)
(* InvalidASINError; and an identifier it returns has that form and is a    *)
(* complete segment of the URL.                                             *)
C13_OnlyCompleteIdentifiers ==
    ExtractAsinEnded =>
        LET segs == IdentifierSegments(input.chars)
        IN /\ (\A seg \in segs : ~IsIdentifier(seg)) =>
                  /\ output.status = "raised"
                  /\ output.exc.type = "InvalidASINError"
           /\ output.status = "returned" =>
                  /\ IsIdentifier(output.value)
                  /\ output.value \in segs

\* The patterns that match somewhere in s
MatchingPatterns(s) ==
    {k \in 1..Len(asin_patterns) : \E i \in 1..Len(s) : MatchesAt(asin_patterns[k], s, i)}

(* C14: when at least one of the four patterns matches the URL, the         *)
(* identifier returned is the one captured by the first matching pattern in *)
(* the order /dp/, /product/, /gp/product/, asin=, wherever in the URL the  *)
(* matches stand.                                                           *)
C14_HighestPriorityPatternWins ==
    ExtractAsinEnded =>
        LET s == input.chars
            ms == MatchingPatterns(s)
            top == CHOOSE k \in ms : \A m \in ms : k <= m
        IN ms # {} => output = Returned(re_search(asin_patterns[top], s))

\* the query parameter stands first and holds another identifier than /dp/
C14_Witness ==
    /\ input = StrValue(Host \o ShapePrefix(4) \o OtherAsin \o ShapePrefix(1) \o SampleAsin)
    /\ MatchingPatterns(input.chars) = {1, 4}
    /\ re_search(asin_patterns[4], input.chars) = OtherAsin
    /\ output = Returned(SampleAsin)

---------------------------------------------------------------------------
(* extract_and_format_product_data and scrape_product applied on their own *)
(* to payloads of every shape                                              *)

\* What the payloads hold for each primary field: nothing, a well-formed
\* value, and the malformed values of test_malformed_data_extraction and
\* their like.
NameOptions ==
    {<< >>,
     << Pair(<< "t", "i", "t", "l", "e" >>, PyStr(<< "X" >>)) >>,
     << Pair(<< "t", "i", "t", "l", "e" >>, PyStr(<< "U", "n", "k", "n", "o", "w", "n" >>)) >>,
     << Pair(<< "t", "i", "t", "l", "e" >>, PyInt(123)) >>}
BrandOptions ==
    {<< >>,
     << Pair(<< "b", "r", "a", "n", "d" >>, PyStr(<< "A", "c", "m", "e" >>)) >>,
     << Pair(<< "m", "a", "n", "u", "f", "a", "c", "t", "u", "r", "e", "r" >>, PyList(<< PyStr(<< "A" >>), PyStr(<< "B" >>) >>)) >>}
PriceOptions ==
    {<< >>,
     << Pair(<< "p", "r", "i", "c", "e" >>, PyStr(<< "$", "1", ",", "2", "3", "4", ".", "5", "0" >>)) >>,
     << Pair(<< "p", "r", "i", "c", "e" >>, PyStr(<< "n", "o", "t", " ", "a", " ", "p", "r", "i", "c", "e" >>)) >>,
     << Pair(<< "p", "r", "i", "c", "e" >>, PyBool(TRUE)) >>,
     << Pair(<< "p", "r", "i", "c", "e" >>, PyList(<< PyStr(<< "n", "o", "t" >>), PyStr(<< "a" >>), PyStr(<< "s", "t", "r", "i", "n", "g" >>) >>)) >>}
RatingOptions ==
    {<< >>,
     << Pair(<< "r", "a", "t", "i", "n", "g" >>, PyInt(0)) >>,
     << Pair(<< "r", "a", "t", "i", "n", "g" >>, PyStr(<< "4", ".", "5", " ", "o", "u", "t", " ", "o", "f", " ", "5", " ", "s", "t", "a", "r", "s" >>)) >>,
     << Pair(<< "r", "a", "t", "i", "n", "g" >>, PyDict(<< Pair(<< "i", "n", "v", "a", "l", "i", "d" >>, PyStr(<< "s", "t", "r", "u", "c", "t", "u", "r", "e" >>)) >>)) >>}
ReviewOptions ==
    {<< >>,
     << Pair(<< "r", "e", "v", "i", "e", "w", "s", "_", "c", "o", "u", "n", "t" >>, PyStr(<< "2", "5", ",", "8", "4", "7", " ", "r", "a", "t", "i", "n", "g", "s" >>)) >>,
     << Pair(<< "r", "e", "v", "i", "e", "w", "s", "_", "c", "o", "u", "n", "t" >>, PyNone) >>,
     << Pair(<< "r", "e", "v", "i", "e", "w", "s", "_", "c", "o", "u", "n", "t" >>, PyFloat(<< "i", "n", "f" >>, 0)) >>,
     << Pair(<< "r", "e", "v", "i", "e", "w", "s", "_", "c", "o", "u", "n", "t" >>, PyInt(0)) >>}
DescriptionOptions ==
    {<< >>,
     << Pair(<< "d", "e", "s", "c", "r", "i", "p", "t", "i", "o", "n" >>, PyStr(<< "D" >>)) >>}

\* A content with bullet points, images, specifications, availability and
\* a url of its own
RichContent ==
    PyDict(<< Pair(<< "t", "i", "t", "l", "e" >>, PyStr(<< "X" >>)),
              Pair(<< "f", "e", "a", "t", "u", "r", "e", "s" >>, PyStr(<< "a", "\n", "U+2022", " ", "b", " " >>)),
              Pair(<< "i", "m", "a", "g", "e", "s" >>, PyList(<< PyStr(<< "u", "1" >>), PyStr(<< >>), PyInt(5) >>)),
              Pair(<< "s", "p", "e", "c", "s" >>, PyList(<< PyStr(<< "C", "o", "l", "o", "r", ":", " ", "R", "e", "d" >>),
                                      PyDict(<< Pair(<< "W" >>, PyInt(1)) >>) >>)),
              Pair(<< "i", "n", "_", "s", "t", "o", "c", "k" >>, PyStr(<< "I", "n", " ", "S", "t", "o", "c", "k" >>)),
              Pair(<< "u", "r", "l" >>, PyStr(<< "a", ".", "c", "o", "/", "x" >>)) >>)

Contents ==
    {PyDict(n \o b \o p \o r \o c \o d) :
        n \in NameOptions, b \in BrandOptions, p \in PriceOptions,
        r \in RatingOptions, c \in ReviewOptions, d \in DescriptionOptions}
    \cup {RichContent}

\* base with an "error" key of value tag and, when has_message, a
\* "message" key of value message
ErrorPayload(base, tag, has_message, message) ==
    [base EXCEPT !.keys = @ \cup {"error"} \cup (IF has_message THEN {"message"} ELSE {}),
                 !.error = tag,
                 !.message = message]

\* Payloads with an error marker: the four known tags and an unknown one,
\* without a message, with an empty one and with a text, alone or next to
\* well-formed results.
ErrorPayloads ==
    {ErrorPayload(base, tag, m[1], m[2]) :
        base \in {BodyEmptyDict, BodyValid},
        tag \in {"invalid_asin", "invalid_credentials", "rate_limit", "connection_error",
                 "quota"},
        m \in {<< FALSE, "" >>, << TRUE, "" >>, << TRUE, "Rate limit exceeded" >>}}

\* A first result that is null, and first results that are a str and a
\* list holding "content"
BodyFirstNull == Body("dict", {"results"}, "", "list", 1, "NoneType", FALSE, "NoneType")
BodyFirstStr == Body("dict", {"results"}, "", "list", 1, "str", TRUE, "NoneType")
BodyFirstList == Body("dict", {"results"}, "", "list", 1, "list", TRUE, "NoneType")

Payloads ==
    {Payload(c) : c \in Contents}
    \cup ErrorPayloads
    \cup Bodies
    \cup {BodyFirstNull, BodyFirstStr, BodyFirstList}

InitExtract ==
    /\ NoFetch
    /\ called \in {"extract_and_format_product_data", "scrape_product"}
    /\ input \in {[payload |-> b, now |-> t, product_url |-> u] :
                     b \in Payloads, t \in Times, u \in {UrlDp, UrlQuery}}
    /\ output = Running

\* result = scraper.extract_and_format_product_data(payload)
CallExtractAndFormat ==
    /\ called = "extract_and_format_product_data"
    /\ output = Running
    /\ output' = extract_and_format_product_data(input.payload, input.now)
    /\ UNCHANGED << called, input >>
    /\ UNCHANGED fetch_vars

\* scrape_product(product_url) whose _make_request returns the payload
CallScrapeProduct ==
    /\ called = "scrape_product"
    /\ output = Running
    /\ output' = scrape_product(Returned(input.payload), input.product_url, input.now)
    /\ UNCHANGED << called, input >>
    /\ UNCHANGED fetch_vars

NextExtract ==
    \/ CallExtractAndFormat
    \/ CallScrapeProduct

SpecExtract == InitExtract /\ [][NextExtract]_vars

\* One of the two has ended
ExtractEnded ==
    /\ called \in {"extract_and_format_product_data", "scrape_product"}
    /\ output.status # "running"

\* The payload is a dict with an "error" key
HasErrorMarker(b) == b.type = "dict" /\ "error" \in b.keys

\* The payload is shaped as {results: [{content: <dict>}, ...]}
WellShaped(b) ==
    /\ b.type = "dict"
    /\ "results" \in b.keys
    /\ b.results_type = "list" /\ b.results_len >= 1
    /\ b.first_type = "dict" /\ b.first_has_content
    /\ b.content_type = "dict"

\* The default of each primary field in the envelope
Default(field) ==
    CASE field \in {"name", "brand"} -> << "U", "n", "k", "n", "o", "w", "n" >>
      [] field = "price" -> << "0", ".", "0", "0" >>
      [] field \in {"rating", "reviews_count"} -> << "0" >>
      [] field = "description" -> << >>

\* The url an envelope of the call at hand carries when nothing was extracted
UnsetUrl == IF called = "scrape_product" THEN input.product_url ELSE StrValue(<< >>)

\* The product of an envelope for which no extractor has run
DefaultProduct ==
    [name |-> << "U", "n", "k", "n", "o", "w", "n" >>, brand |-> << "U", "n", "k", "n", "o", "w", "n" >>, price |-> << "0", ".", "0", "0" >>, rating |-> << "0" >>,
     reviews_count |-> << "0" >>, description |-> << >>, bullet_points |-> << >>,
     features |-> << >>, images |-> << >>, specifications |-> PyDict(<< >>),
     availability |-> << >>, url |-> UnsetUrl, scraped_at |-> input.now]

(* C15: for a payload that is a dict with an "error" key, whatever else it  *)
(* holds, the envelope has every product field at its default,              *)
(* fields_extracted = 0, extraction_successful = false and an error_message *)
(* that is not null and holds the marker's message ("Unknown error" when    *)
(* the marker has none).                                                    *)
C15_ErrorMarkerGivesDefaults ==
    (ExtractEnded /\ HasErrorMarker(input.payload)) =>
        /\ output.status = "returned"
        /\ output.value.product = DefaultProduct
        /\ output.value.metadata.fields_extracted = 0
        /\ output.value.metadata.extraction_successful = FALSE
        /\ output.value.metadata.error_message # NoError
        /\ output.value.metadata.error_message.msg =
              (IF "message" \in input.payload.keys
               THEN input.payload.message
               ELSE "Unknown error")

\* a rate_limit marker next to well-formed results with a title
C15_Witness ==
    /\ ExtractEnded
    /\ input.payload = ErrorPayload(BodyValid, "rate_limit", TRUE, "Rate limit exceeded")
    /\ WellShaped(input.payload)
    /\ output.value.product.name = << "U", "n", "k", "n", "o", "w", "n" >>
    /\ output.value.metadata.error_message.msg = "Rate limit exceeded"

(* C16: a payload without an error marker that is not shaped as             *)
(* {results: [{content: <dict>}, ...]} is rejected by                       *)
(* _validate_response_structure with ValidationError, and the call returns  *)
(* an envelope with extraction_successful = false and an error_message that *)
(* is not null.                                                             *)
C16_MalformedIsValidationError ==
    (ExtractEnded /\ ~HasErrorMarker(input.payload) /\ ~WellShaped(input.payload)) =>
        /\ validate_response_structure(input.payload).status = "raised"
        /\ validate_response_structure(input.payload).exc.type = "ValidationError"
        /\ output.status = "returned"
        /\ output.value.metadata.extraction_successful = FALSE
        /\ output.value.metadata.error_message # NoError
        /\ output.value.metadata.error_message.prefix = "Validation error: "

(* C17: in every envelope extract_and_format_product_data or scrape_product *)
(* returns, extraction_successful is true exactly when error_message is     *)
(* null; and each of them returns an envelope for every payload.            *)
C17_SuccessIffNoErrorMessage ==
    ExtractEnded =>
        /\ output.status = "returned"
        /\ output.value.metadata.extraction_successful
              <=> (output.value.metadata.error_message = NoError)

\* the marker's message is the empty string: error_message is "" and not null
C17_Witness ==
    /\ ExtractEnded
    /\ called = "scrape_product"
    /\ input.payload = ErrorPayload(BodyEmptyDict, "invalid_asin", TRUE, "")
    /\ output.value.metadata.error_message = [prefix |-> "", fmt |-> "", msg |-> "", last |-> NoLast]
    /\ output.value.metadata.extraction_successful = FALSE

\* The keys the extractor of a primary field looks at
FieldKeys(field) ==
    CASE field = "name" -> NameKeys
      [] field = "brand" -> BrandKeys
      [] field = "price" -> price_keys
      [] field = "rating" -> rating_keys
      [] field = "reviews_count" -> review_keys
      [] field = "description" -> DescriptionKeys

\* No key of the field is in the content
Absent(field, content) ==
    \A i \in 1..Len(FieldKeys(field)) : ~HasKey(content, FieldKeys(field)[i])

(* C18: for a well-shaped payload without error marker the envelope has     *)
(* extraction_successful = true; a primary field none of whose keys is in   *)
(* content has its default; name, brand, price, rating and reviews_count    *)
(* are never empty; and content {title: "X"} alone gives name "X", the four *)
(* others at their defaults and fields_extracted = 1.                       *)
C18_SparseIsNotAnError ==
    (ExtractEnded /\ WellShaped(input.payload) /\ ~HasErrorMarker(input.payload)) =>
        /\ output.status = "returned"
        /\ output.value.metadata.extraction_successful = TRUE
        /\ output.value.metadata.error_message = NoError
        /\ \A f \in PrimaryFields :
              /\ Absent(f, input.payload.content) => output.value.product[f] = Default(f)
              /\ f # "description" => output.value.product[f] # << >>
        /\ input.payload.content = PyDict(<< Pair(<< "t", "i", "t", "l", "e" >>, PyStr(<< "X" >>)) >>) =>
              /\ output.value.product.name = << "X" >>
              /\ output.value.product.brand = << "U", "n", "k", "n", "o", "w", "n" >>
              /\ output.value.product.price = << "0", ".", "0", "0" >>
              /\ output.value.product.rating = << "0" >>
              /\ output.value.product.reviews_count = << "0" >>
              /\ output.value.metadata.fields_extracted = 1

C18_Witness ==
    /\ ExtractEnded
    /\ input.payload = Payload(PyDict(<< Pair(<< "t", "i", "t", "l", "e" >>, PyStr(<< "X" >>)) >>))
    /\ output.value.product.name = << "X" >>
    /\ output.value.product.price = << "0", ".", "0", "0" >>
    /\ output.value.metadata.fields_extracted = 1
    /\ output.value.metadata.extraction_successful = TRUE

\* The fields whose extractor raises on the content
Failing(content) ==
    {f \in DOMAIN InitialProductData(<< >>) \ {"scraped_at", "error"} :
        Extractor(f, content).status = "raised"}

\* The content without the keys the extractors of the failing fields look at
WithoutFailing(content) ==
    LET dropped == UNION {{FieldKeys(f)[i] : i \in 1..Len(FieldKeys(f))} :
                             f \in Failing(content)}
        Kept(pair) == pair.key \notin dropped
    IN PyDict(SelectSeq(content.items, Kept))

(* C19: for a well-shaped payload without error marker, when the extractors *)
(* of some fields raise, the call still returns an envelope with product    *)
(* and metadata, extraction_successful = true and a null error_message;     *)
(* each field whose extractor raised has its default, and every other field *)
(* has the value it has for the same content without the values that made   *)
(* the extractors raise.                                                    *)
C19_ExtractorFailuresAreIsolated ==
    (ExtractEnded /\ WellShaped(input.payload) /\ ~HasErrorMarker(input.payload)) =>
        LET content == input.payload.content
            sound == WithoutFailing(content)
            reference == IF called = "scrape_product"
                         THEN scrape_product(Returned(Payload(sound)), input.product_url,
                                             input.now)
                         ELSE extract_and_format_product_data(Payload(sound), input.now)
        IN /\ output.status = "returned"
           /\ DOMAIN output.value = {"product", "metadata"}
           /\ output.value.metadata.extraction_successful = TRUE
           /\ output.value.metadata.error_message = NoError
           /\ \A f \in Failing(content) : output.value.product[f] = Default(f)
           /\ Failing(sound) = {}
           /\ output.value.product = reference.value.product

\* the price and the reviews count make their extractors raise; the name
\* and the rating are extracted all the same
C19_Witness ==
    /\ ExtractEnded
    /\ WellShaped(input.payload)
    /\ Failing(input.payload.content) = {"price", "reviews_count"}
    /\ output.value.product.name = << "X" >>
    /\ output.value.product.rating = << "4", ".", "5" >>
    /\ output.value.product.price = << "0", ".", "0", "0" >>
    /\ output.value.product.reviews_count = << "0" >>
    /\ output.value.metadata.extraction_successful = TRUE

\* The primary fields whose value in the envelope differs from the default
NonDefaultFields == {f \in PrimaryFields : output.value.product[f] # Default(f)}

(* C20 as claimed: fields_extracted is in 0..6 and equals the number of     *)
(* primary fields whose value in the envelope's product differs from the    *)
(* field's default.                                                         *)
C20_CountsNonDefaultFields ==
    (ExtractEnded /\ output.status = "returned") =>
        /\ output.value.metadata.fields_extracted \in 0..6
        /\ output.value.metadata.fields_extracted = Cardinality(NonDefaultFields)

\* The value the extractor of a primary field leaves in product_data
Extracted(field) ==
    IF WellShaped(input.payload) /\ ~HasErrorMarker(input.payload)
          /\ Extractor(field, input.payload.content).status = "returned"
    THEN Extractor(field, input.payload.content).value
    ELSE << >>

(* C20 amended: fields_extracted is in 0..6 and equals the number of        *)
(* primary fields for which the extractor produced a non-empty value; it    *)
(* is the number of fields that differ from their default plus the number   *)
(* of fields whose extracted value is the text of the default itself.       *)
C20_CountsNonEmptyExtractions ==
    (ExtractEnded /\ output.status = "returned") =>
        /\ output.value.metadata.fields_extracted \in 0..6
        /\ output.value.metadata.fields_extracted =
              Cardinality({f \in PrimaryFields : Extracted(f) # << >>})
        /\ output.value.metadata.fields_extracted =
              Cardinality(NonDefaultFields)
              + Cardinality({f \in PrimaryFields :
                                Extracted(f) # << >> /\ Extracted(f) = Default(f)})

\* a title "Unknown" and a rating 0: two fields counted, none differs from
\* its default
C20_Witness ==
    /\ ExtractEnded
    /\ input.payload = Payload(PyDict(<< Pair(<< "t", "i", "t", "l", "e" >>, PyStr(<< "U", "n", "k", "n", "o", "w", "n" >>)),
                                         Pair(<< "r", "a", "t", "i", "n", "g" >>, PyInt(0)) >>))
    /\ output.value.metadata.fields_extracted = 2
    /\ NonDefaultFields = {}

---------------------------------------------------------------------------
(* extract_and_format_product_data applied twice to one payload *)

\* The instants of Times in the order of the clock
TimeLine == << << "2", "0", "2", "5", "-", "0", "1", "-", "0", "1", " ", "0", "0", ":", "0", "0", ":", "0", "0" >>, << "2", "0", "2", "5", "-", "0", "1", "-", "0", "1", " ", "0", "0", ":", "0", "0", ":", "0", "1" >> >>

\* The clock reads TimeLine[j] no earlier than it reads TimeLine[i]
NotEarlier(i, j) == i <= j

\* input.now is the index in TimeLine of the instant of the latest call;
\* output is the list of the calls made, each with its instant and result.
InitTwice ==
    /\ NoFetch
    /\ called = "extract_and_format_product_data twice"
    /\ input \in {[payload |-> b, now |-> 0, product_url |-> UrlDp] : b \in Payloads}
    /\ output = << >>

\* result = scraper.extract_and_format_product_data(payload), a first and
\* a second time; the clock does not run backwards between the two.  The
\* function assigns to nothing but its own product_data, so the payload
\* is the same afterwards.
CallExtractAgain ==
    /\ called = "extract_and_format_product_data twice"
    /\ Len(output) < 2
    /\ \E j \in 1..Len(TimeLine) :
          /\ NotEarlier(input.now, j)
          /\ input' = [input EXCEPT !.now = j]
          /\ output' = Append(output,
                              [now |-> TimeLine[j],
                               payload |-> input.payload,
                               result |-> extract_and_format_product_data(input.payload,
                                                                          TimeLine[j])])
    /\ UNCHANGED called
    /\ UNCHANGED fetch_vars

NextTwice == CallExtractAgain

SpecTwice == InitTwice /\ [][NextTwice]_vars

\* Both calls have been made
CalledTwice ==
    /\ called = "extract_and_format_product_data twice"
    /\ Len(output) = 2

---------------------------------------------------------------------------
(* _safe_extract_text applied on its own *)

\* The key lists of the five text fields
TextKeyLists == {NameKeys, BrandKeys, DescriptionKeys, AvailabilityKeys, UrlKeys}

\* What a key of content may hold: strings (empty, padded, plain), numbers,
\* booleans, null, lists and mappings
TextValues ==
    {PyStr(<< >>), PyStr(<< " ", "X", " " >>), PyStr(<< "Y" >>),
     PyInt(123), PyInt(0), PyBool(TRUE), PyFloat(<< "4", ".", "5" >>, 4), PyNone,
     PyList(<< PyStr(<< "A" >>), PyInt(1) >>), PyList(<< >>),
     PyDict(<< Pair(<< "k" >>, PyStr(<< "v" >>)) >>)}

\* An entry of content for the key, or none
TextEntries(key) == {<< >>} \cup {<< Pair(key, v) >> : v \in TextValues}

\* Contents over the first three keys of a list
TextContents(keys) ==
    {PyDict(a \o b \o c) :
        a \in TextEntries(keys[1]), b \in TextEntries(keys[2]), c \in TextEntries(keys[3])}

InitText ==
    /\ NoFetch
    /\ called = "_safe_extract_text"
    /\ input \in {[content |-> c, keys |-> keys] :
                     c \in TextContents(NameKeys), keys \in {NameKeys}}
                 \cup {[content |-> PyDict(<< Pair(keys[1], v) >>), keys |-> keys] :
                          v \in TextValues, keys \in TextKeyLists}
    /\ output = Running

\* text = self._safe_extract_text(content, keys)
CallSafeExtractText ==
    /\ called = "_safe_extract_text"
    /\ output = Running
    /\ output' = safe_extract_text(input.content, input.keys)
    /\ UNCHANGED << called, input >>
    /\ UNCHANGED fetch_vars

NextText == CallSafeExtractText

SpecText == InitText /\ [][NextText]_vars

SafeExtractTextEnded == called = "_safe_extract_text" /\ output.status # "running"

\* The positions in keys of the keys whose value in content is non-empty
NonEmptyAt(content, keys) ==
    {i \in 1..Len(keys) : HasKey(content, keys[i]) /\ Truthy(Get(content, keys[i]))}

\* The least element of a non-empty set of positions
Least(S) == CHOOSE i \in S : \A j \in S : i <= j

\* str(value), trimmed when the value is a string
Stringified(value) == IF value.type = "str" THEN Strip(value.chars) ELSE py_str(value)

(* C22: _safe_extract_text returns the value of the first key of the list   *)
(* whose value in content is non-empty, stringified (trimmed when it is a   *)
(* string) whatever its type, and the empty string only when no listed key  *)
(* holds a non-empty value.                                                 *)
C22_FirstNonEmptyValueStringified ==
    SafeExtractTextEnded =>
        /\ output.status = "returned"
        /\ IF NonEmptyAt(input.content, input.keys) = {}
           THEN output.value = << >>
           ELSE output.value =
                   Stringified(Get(input.content,
                                   input.keys[Least(NonEmptyAt(input.content, input.keys))]))

---------------------------------------------------------------------------
(* _extract_and_format_price applied on its own *)

\* Price texts: the spec's two examples, texts with commas and symbols,
\* with leading zeros, without a digit before or after the point, with
\* many zeros after the point, with two points, and without any digit
PriceTexts ==
    {<< "$", "1", ",", "2", "3", "4", ".", "5", "0" >>, << "n", "o", "t", " ", "a", " ", "p", "r", "i", "c", "e" >>, << " ", "1", "9", ".", "9", "9", " " >>, << "2", "5" >>, << "1", ",", "2", ".", "3", ".", "4" >>, << "1", "0", ".", "0", "0", " ", "-", " ", "2", "0", ".", "0", "0" >>,
     << "0", "0", ".", "5", "0" >>, << "$", ".", "5" >>, << "5", "." >>, << "0", ".", "0", "0", "0", "0", "0", "1" >>, << "0", ".", "0", "0", "0", "0", "0", "0", "1" >>, << "0", ".", "0", "0", "0", "0", "0", "0", "0", "0" >>, << "1", "e", "5" >>, << " ", "$", " " >>}

\* What the "price" key may hold: nothing, a text, a number, a mapping
PriceEntries ==
    {<< >>}
    \cup {<< Pair(<< "p", "r", "i", "c", "e" >>, PyStr(t)) >> : t \in PriceTexts}
    \cup {<< Pair(<< "p", "r", "i", "c", "e" >>, PyStr(<< >>)) >>,
          << Pair(<< "p", "r", "i", "c", "e" >>, PyInt(25)) >>,
          << Pair(<< "p", "r", "i", "c", "e" >>, PyDict(<< Pair(<< "v", "a", "l", "u", "e" >>, PyFloat(<< "9", ".", "9", "9" >>, 9)) >>)) >>}

\* What the lower-priority "current_price" key may hold
CurrentPriceEntries ==
    {<< >>}
    \cup {<< Pair(<< "c", "u", "r", "r", "e", "n", "t", "_", "p", "r", "i", "c", "e" >>, PyStr(t)) >> : t \in {<< "5", ".", "0", "0" >>, << "1", ",", "0", "0", "0" >>, << "x" >>}}

InitPrice ==
    /\ NoFetch
    /\ called = "_extract_and_format_price"
    /\ input \in {[content |-> PyDict(p \o c)] : p \in PriceEntries, c \in CurrentPriceEntries}
    /\ output = Running

\* price = self._extract_and_format_price(content)
CallExtractPrice ==
    /\ called = "_extract_and_format_price"
    /\ output = Running
    /\ output' = extract_and_format_price(input.content)
    /\ UNCHANGED << called, input >>
    /\ UNCHANGED fetch_vars

NextPrice == CallExtractPrice

SpecPrice == InitPrice /\ [][NextPrice]_vars

\* The call has ended and the first non-empty price key holds a string
StringPriceExtracted ==
    /\ called = "_extract_and_format_price"
    /\ output.status # "running"
    /\ NonEmptyAt(input.content, price_keys) # {}
    /\ Get(input.content, price_keys[Least(NonEmptyAt(input.content, price_keys))]).type = "str"

\* That string
PriceText == Get(input.content, price_keys[Least(NonEmptyAt(input.content, price_keys))]).chars

\* What is left of it without the characters other than digits and '.'
PriceRemainder == SelectSeq(SelectSeq(PriceText, IsPriceChar), IsNotComma)

\* The number a sequence of digits writes
RECURSIVE DigitsValue(_)
DigitsValue(s) ==
    IF s = << >>
    THEN 0
    ELSE 10 * DigitsValue(SubSeq(s, 1, Len(s) - 1))
         + (CHOOSE n \in 0..9 : IntChars(n) = << s[Len(s)] >>)

\* The decimal a text writes, as coefficient and exponent: digits with at
\* most one '.', optionally followed by "E-" and digits
DecimalOf(t) ==
    LET es == {i \in 1..Len(t) : t[i] = "E"}
        e == IF es = {} THEN Len(t) + 1 ELSE CHOOSE i \in es : TRUE
        mantissa == SubSeq(t, 1, e - 1)
        dots == {i \in 1..Len(mantissa) : mantissa[i] = "."}
        fraction == IF dots = {} THEN 0 ELSE Len(mantissa) - (CHOOSE i \in dots : TRUE)
        shift == IF es = {} THEN 0 ELSE DigitsValue(SubSeq(t, e + 2, Len(t)))
    IN [coefficient |-> DigitsValue(SelectSeq(mantissa, LAMBDA c : c # ".")),
        exponent |-> 0 - fraction - shift]

\* A decimal text that str(Decimal(text)) gives back unchanged: a digit
\* before the point and none after a final point, no superfluous leading
\* zero, and fewer than six zeros between the point and the first
\* significant digit
IsCanonicalDecimal(t) ==
    /\ t[1] \in Digits
    /\ t[Len(t)] # "."
    /\ ~(Len(t) > 1 /\ t[1] = "0" /\ t[2] \in Digits)
    /\ Len(IntChars(DecimalOf(t).coefficient)) + DecimalOf(t).exponent > 0 - 6

(* C23 as claimed: for a string price, when what is left after removing the *)
(* characters other than digits and '.' is a valid decimal, the result is   *)
(* exactly that text; otherwise it is the original string trimmed.          *)
C23_ReturnsRemainderText ==
    StringPriceExtracted =>
        /\ output.status = "returned"
        /\ output.value = (IF IsDecimalLiteral(PriceRemainder)
                           THEN PriceRemainder
                           ELSE Strip(PriceText))

(* C23 amended: for a string price, when what is left after removing the    *)
(* characters other than digits and '.' is a valid decimal, the result      *)
(* writes exactly that decimal, with the same number of digits after the    *)
(* point (trailing zeros preserved), and it is that very text exactly when  *)
(* the text is in the canonical form of a decimal; otherwise the result is  *)
(* the original string trimmed.                                             *)
C23_ReturnsExactDecimal ==
    StringPriceExtracted =>
        /\ output.status = "returned"
        /\ IF IsDecimalLiteral(PriceRemainder)
           THEN /\ DecimalOf(output.value) = DecimalOf(PriceRemainder)
                /\ (output.value = PriceRemainder) <=> IsCanonicalDecimal(PriceRemainder)
           ELSE output.value = Strip(PriceText)

\* "$1,234.50" gives "1234.50"
C23_Witness ==
    /\ StringPriceExtracted
    /\ PriceText = << "$", "1", ",", "2", "3", "4", ".", "5", "0" >>
    /\ PriceRemainder = << "1", "2", "3", "4", ".", "5", "0" >>
    /\ output.value = << "1", "2", "3", "4", ".", "5", "0" >>

---------------------------------------------------------------------------
(* scrape_search_results *)

\* The largest pages argument tried
MaxPages == 2

\* A query of plain words, and one that carries "/dp/<identifier>"
SearchQueries == {<< "q" >>, << "/", "d", "p", "/" >> \o SampleAsin}

\* search_url = f"https://www.amazon.com/s?k={search_query}&page={page}"
SearchUrl(search_query, page) ==
    StrValue(Host \o << "/", "s", "?", "k", "=" >> \o search_query \o << "&", "p", "a", "g", "e", "=" >> \o IntChars(page))

\* Two products of a result page, the second without price and url
ProductOne ==
    PyDict(<< Pair(<< "t", "i", "t", "l", "e" >>, PyStr(<< "P", "1" >>)), Pair(<< "p", "r", "i", "c", "e" >>, PyStr(<< "9", ".", "9", "9" >>)),
              Pair(<< "u", "r", "l" >>, PyStr(<< "/", "d", "p", "/", "1" >>)) >>)
ProductTwo == PyDict(<< Pair(<< "t", "i", "t", "l", "e" >>, PyStr(<< "P", "2" >>)), Pair(<< "r", "a", "t", "i", "n", "g" >>, PyFloat(<< "4", ".", "5" >>, 4)) >>)

\* {"results": [{"content": {"products": [...]}}]} with two products, with
\* one, and with a content that has no "products"
SearchBodies ==
    {Payload(PyDict(<< Pair(<< "p", "r", "o", "d", "u", "c", "t", "s" >>, PyList(<< ProductOne, ProductTwo >>)) >>)),
     Payload(PyDict(<< Pair(<< "p", "r", "o", "d", "u", "c", "t", "s" >>, PyList(<< ProductTwo >>)) >>)),
     Payload(PyDict(<< >>))}

\* The ways _make_request_with_retry can end once the credentials and the
\* URL have passed: a body of the upstream, RateLimitError, or
\* APIConnectionError after the retries
LoopEnds ==
    {Returned(b) : b \in SearchBodies
                         \cup {BodyEmptyDict, BodyEmptyResults, BodyNoContent,
                               BodyFirstNotIterable, BodyContentNotDict}}
    \cup {Raised(Exc("RateLimitError", "Rate limit exceeded")),
          Raised(ExcAfterRetries(NoLast))}

\* _make_request_with_retry(url): self._validate_credentials(), then
\* asin = self._extract_asin_from_url(url), then the retry loop, which
\* ends as loop_end.
make_request_with_retry(u, p, search_url, loop_end) ==
    IF validate_credentials(u, p).status = "raised"
    THEN validate_credentials(u, p)
    ELSE IF extract_asin_from_url(search_url).status = "raised"
    THEN Raised(extract_asin_from_url(search_url).exc)
    ELSE loop_end

\* product.get(key, "")
GetOrEmpty(product, key) == IF HasKey(product, key) THEN Get(product, key) ELSE PyStr(<< >>)

\* The product_data appended for one product
SearchEntry(product, now) ==
    [title |-> GetOrEmpty(product, << "t", "i", "t", "l", "e" >>),
     price |-> GetOrEmpty(product, << "p", "r", "i", "c", "e" >>),
     rating |-> GetOrEmpty(product, << "r", "a", "t", "i", "n", "g" >>),
     reviews_count |-> GetOrEmpty(product, << "r", "e", "v", "i", "e", "w", "s", "_", "c", "o", "u", "n", "t" >>),
     url |-> GetOrEmpty(product, << "u", "r", "l" >>),
     image |-> GetOrEmpty(product, << "i", "m", "a", "g", "e" >>),
     scraped_at |-> now]

\* products = content.get("products", [])
ProductsOf(content) ==
    IF HasKey(content, << "p", "r", "o", "d", "u", "c", "t", "s" >>) THEN Get(content, << "p", "r", "o", "d", "u", "c", "t", "s" >>).items ELSE << >>

\* The body of the page loop from `if "error" in response` on: the page is
\* skipped by `continue`, or an exception leaves the function, or the
\* page's entries are appended and time.sleep(1) is called.
search_page(resp, now) ==
    IF resp.type \notin {"dict", "list", "str"}
    THEN [end |-> "raised", exc |-> Exc("TypeError", "argument is not iterable"),
          entries |-> << >>]
    ELSE IF resp.type # "dict" \/ "error" \in resp.keys
            \/ resp.keys = {} \/ "results" \notin resp.keys
    THEN [end |-> "continue", exc |-> NoExc, entries |-> << >>]
    ELSE IF resp.results_type = "list" /\ resp.results_len = 0
    THEN [end |-> "raised", exc |-> Exc("IndexError", "list index out of range"),
          entries |-> << >>]
    ELSE IF resp.results_type # "list"
    THEN [end |-> "raised", exc |-> Exc("KeyError", "0"), entries |-> << >>]
    ELSE IF resp.first_type \notin {"dict", "list", "str"}
    THEN [end |-> "raised", exc |-> Exc("TypeError", "argument is not iterable"),
          entries |-> << >>]
    ELSE IF ~resp.first_has_content
    THEN [end |-> "continue", exc |-> NoExc, entries |-> << >>]
    ELSE IF resp.first_type # "dict"
    THEN [end |-> "raised", exc |-> Exc("TypeError", "indices must be integers"),
          entries |-> << >>]
    ELSE IF resp.content_type # "dict"
    THEN [end |-> "raised", exc |-> Exc("AttributeError", "object has no attribute 'get'"),
          entries |-> << >>]
    ELSE [end |-> "slept", exc |-> NoExc,
          entries |-> [i \in 1..Len(ProductsOf(resp.content)) |->
                          SearchEntry(ProductsOf(resp.content)[i], now)]]

\* input.upstream[page] is how the retry loop would end for that page;
\* output is the frame of the call: the page of the loop, all_products,
\* the pages for which the upstream was asked, the time.sleep(1) calls.
InitSearch ==
    /\ NoFetch
    /\ called = "scrape_search_results"
    /\ input \in {[search_query |-> q, pages |-> n, username |-> c, password |-> c,
                   upstream |-> loop_ends, now |-> TimeLine[1]] :
                     q \in SearchQueries, n \in 0..MaxPages,
                     c \in {[none |-> FALSE, len |-> MIN_CREDENTIAL_LENGTH],
                            [none |-> FALSE, len |-> 0]},
                     loop_ends \in UNION {[1..k -> LoopEnds] : k \in 0..MaxPages}}
    /\ Len(input.upstream) = input.pages
    /\ output = [status |-> "running", exc |-> NoExc, page |-> 1, all_products |-> << >>,
                 asked |-> << >>, sleeps |-> 0]

\* One iteration of `for page in range(1, pages + 1)`
ScrapeSearchPage ==
    /\ called = "scrape_search_results"
    /\ output.status = "running"
    /\ output.page <= input.pages
    /\ LET search_url == SearchUrl(input.search_query, output.page)
           retried == make_request_with_retry(input.username, input.password, search_url,
                                              input.upstream[output.page])
           asked == IF retried = input.upstream[output.page]
                    THEN Append(output.asked, output.page)
                    ELSE output.asked
           page_end == search_page(make_request(retried).value, input.now)
       IN output' =
             IF page_end.end = "raised"
             THEN [output EXCEPT !.status = "raised", !.exc = page_end.exc, !.asked = asked]
             ELSE [output EXCEPT !.page = @ + 1,
                                 !.asked = asked,
                                 !.all_products = @ \o page_end.entries,
                                 !.sleeps = @ + (IF page_end.end = "slept" THEN 1 ELSE 0)]
    /\ UNCHANGED << called, input >>
    /\ UNCHANGED fetch_vars

\* return all_products
ReturnAllProducts ==
    /\ called = "scrape_search_results"
    /\ output.status = "running"
    /\ output.page > input.pages
    /\ output' = [output EXCEPT !.status = "returned"]
    /\ UNCHANGED << called, input >>
    /\ UNCHANGED fetch_vars

NextSearch ==
    \/ ScrapeSearchPage
    \/ ReturnAllProducts

SpecSearch == InitSearch /\ [][NextSearch]_vars

SearchEnded == called = "scrape_search_results" /\ output.status # "running"

\* The credentials are in order and the upstream answers the page with
\* results whose first element has a content
UpstreamSucceeds(page) ==
    /\ validate_credentials(input.username, input.password).status = "returned"
    /\ input.upstream[page].status = "returned"
    /\ WellShaped(input.upstream[page].value)
    /\ ~HasErrorMarker(input.upstream[page].value)

\* The entries of the pages from..pages whose upstream fetch succeeds, in
\* page order
RECURSIVE EntriesFrom(_)
EntriesFrom(from) ==
    IF from > input.pages
    THEN << >>
    ELSE (IF UpstreamSucceeds(from)
          THEN [i \in 1..Len(ProductsOf(input.upstream[from].value.content)) |->
                   SearchEntry(ProductsOf(input.upstream[from].value.content)[i], input.now)]
          ELSE << >>)
         \o EntriesFrom(from + 1)

(* C24: scrape_search_results(query, pages = n) returns, in page order, one *)
(* entry per element of content.products of every page of 1..n whose        *)
(* upstream fetch succeeds; a page with a classified error or without       *)
(* results/content contributes nothing, and nothing is raised.              *)
C24_EntriesOfSucceedingPages ==
    SearchEnded =>
        /\ output.status = "returned"
        /\ output.page = input.pages + 1
        /\ output.all_products = EntriesFrom(1)

---------------------------------------------------------------------------
(* process_asins, run after run over one output directory *)

\* The longest list of ASINs and the number of runs tried
MaxAsins == 3
MaxRuns == 2

\* delay: float = 1.0
DEFAULT_DELAY == 1

\* The ASINs read_asins_from_file returns: any list, repetitions included
AsinNames == {SampleAsin, OtherAsin}
AsinLists == UNION {[1..n -> AsinNames] : n \in 0..MaxAsins}

\* How the body of the try block ends for an ASIN that is fetched:
\* scrape_product reports extraction_successful and the file is written;
\* it reports a failure; or it reports success and json.dump raises after
\* open(filepath, 'w') has created the file.
FetchOutcomes == {"success", "failed", "write_error"}

\* No file of that name in output_dir
NoFile == [run |-> 0, at |-> 0, complete |-> FALSE]

\* Variant: the result is written whatever its metadata says.
SavedFile_AlwaysWritten(file, outcome, run, i) ==
    [run |-> run, at |-> i, complete |-> outcome # "write_error"]

\* <asin>.json after the try block: open(filepath, 'w') and json.dump are
\* reached only when result['metadata']['extraction_successful'] holds.
SavedFile(file, outcome, run, i) ==
    IF outcome \in {"success", "write_error"}
    THEN [run |-> run, at |-> i, complete |-> outcome = "success"]
    ELSE file

\* Variant: no sleep after the last but one item either.
PacingSleep_OneShort(i, n, delay) ==
    IF i < n - 1
    THEN << [i |-> i, kind |-> "sleep", asin |-> << >>, outcome |-> "", delay |-> delay] >>
    ELSE << >>

\* if i < len(asins): time.sleep(delay)
PacingSleep(i, n, delay) ==
    IF i < n
    THEN << [i |-> i, kind |-> "sleep", asin |-> << >>, outcome |-> "", delay |-> delay] >>
    ELSE << >>

\* failed_asins_report.json after the loop: written only `if failed_asins`
SavedReport(report, failed_asins) ==
    IF failed_asins # << >>
    THEN [exists |-> TRUE, asins |-> failed_asins]
    ELSE report

\* input is the ASINs file and the delay; output is the directory (files,
\* report), the frame of the run at hand (i, results, failed_asins) and
\* the log of what that run did.
InitBatch ==
    /\ NoFetch
    /\ called = "process_asins"
    /\ input \in {[asins |-> l, delay |-> DEFAULT_DELAY] : l \in AsinLists}
    /\ output = [status |-> "idle", run |-> 0, i |-> 0,
                 results |-> [success |-> 0, failed |-> 0, skipped |-> 0],
                 failed_asins |-> << >>,
                 files |-> [a \in AsinNames |-> NoFile],
                 report |-> [exists |-> FALSE, asins |-> << >>],
                 log |-> << >>]

\* process_asins(asins_file, output_dir) up to the loop: without
\* credentials in the environment or without a valid ASIN it returns at
\* once.
StartRun ==
    /\ called = "process_asins"
    /\ output.status = "idle"
    /\ output.run < MaxRuns
    /\ \E credentials \in BOOLEAN :
          output' = [output EXCEPT
                        !.run = @ + 1,
                        !.i = 1,
                        !.results = [success |-> 0, failed |-> 0, skipped |-> 0],
                        !.failed_asins = << >>,
                        !.log = << >>,
                        !.status = IF credentials /\ input.asins # << >>
                                   THEN "loop"
                                   ELSE "idle"]
    /\ UNCHANGED << called, input >>
    /\ UNCHANGED fetch_vars

\* An iteration for an ASIN whose file exists: skipped, and `continue`
\* passes over the pacing sleep
SkipExisting ==
    /\ called = "process_asins"
    /\ output.status = "loop"
    /\ output.i <= Len(input.asins)
    /\ output.files[input.asins[output.i]] # NoFile
    /\ output' = [output EXCEPT
                     !.results.skipped = @ + 1,
                     !.log = Append(@, [i |-> output.i, kind |-> "skip",
                                        asin |-> input.asins[output.i], outcome |-> "",
                                        delay |-> 0]),
                     !.i = @ + 1]
    /\ UNCHANGED << called, input >>
    /\ UNCHANGED fetch_vars

\* An iteration for an ASIN without file: scrape_product, the file or the
\* entry in failed_asins, and the pacing sleep
FetchProduct ==
    /\ called = "process_asins"
    /\ output.status = "loop"
    /\ output.i <= Len(input.asins)
    /\ output.files[input.asins[output.i]] = NoFile
    /\ \E outcome \in FetchOutcomes :
          LET asin == input.asins[output.i]
          IN output' = [output EXCEPT
                           !.files[asin] = SavedFile(@, outcome, output.run, output.i),
                           !.results.success = @ + (IF outcome = "success" THEN 1 ELSE 0),
                           !.results.failed = @ + (IF outcome = "success" THEN 0 ELSE 1),
                           !.failed_asins = IF outcome = "success" THEN @ ELSE Append(@, asin),
                           !.log = Append(@, [i |-> output.i, kind |-> "fetch", asin |-> asin,
                                              outcome |-> outcome, delay |-> 0])
                                   \o PacingSleep(output.i, Len(input.asins), input.delay),
                           !.i = @ + 1]
    /\ UNCHANGED << called, input >>
    /\ UNCHANGED fetch_vars

\* After the loop: the report, the summary, `return results`
FinishRun ==
    /\ called = "process_asins"
    /\ output.status = "loop"
    /\ output.i > Len(input.asins)
    /\ output' = [output EXCEPT
                     !.report = SavedReport(@, output.failed_asins),
                     !.status = "idle"]
    /\ UNCHANGED << called, input >>
    /\ UNCHANGED fetch_vars

NextBatch ==
    \/ StartRun
    \/ SkipExisting
    \/ FetchProduct
    \/ FinishRun

SpecBatch == InitBatch /\ [][NextBatch]_vars

\* Positions of the log of the run at hand, by kind
LogAt(kind) == {k \in 1..Len(output.log) : output.log[k].kind = kind}

(* C25: in process_asins the fetches of a run are issued one after the      *)
(* other in list order, any two consecutive fetches are separated by at     *)
(* least one sleep of `delay`, whatever lies between them, and no sleep      *)
(* follows the last ASIN of the list.                                       *)
C25_FetchesArePaced ==
    called = "process_asins" =>
        /\ \A k \in LogAt("fetch"), m \in LogAt("fetch") :
              k < m =>
                 /\ output.log[k].i < output.log[m].i
                 /\ \E s \in LogAt("sleep") :
                       k < s /\ s < m /\ output.log[s].delay = input.delay
        /\ \A s \in LogAt("sleep") : output.log[s].i < Len(input.asins)
        /\ \A k \in LogAt("fetch") :
              output.log[k].i < Len(input.asins) =>
                 /\ k < Len(output.log)
                 /\ output.log[k + 1].kind = "sleep"

\* a failed fetch, a skipped ASIN and another fetch at the end of the list
C25_Witness ==
    /\ called = "process_asins"
    /\ output.status = "idle"
    /\ Len(output.log) = 4
    /\ output.log[1].kind = "fetch" /\ output.log[1].outcome = "failed"
    /\ output.log[2].kind = "sleep"
    /\ output.log[3].kind = "skip"
    /\ output.log[4].kind = "fetch" /\ output.log[4].i = Len(input.asins)

---------------------------------------------------------------------------
(* _extract_rating and _extract_reviews_count applied on their own *)

\* What a rating or reviews key may hold: strings that are empty, blank,
\* with and without a number, a lone comma, numbers, null, mappings with
\* and without "value", a list
CountValues ==
    {PyStr(<< >>), PyStr(<< " ", " " >>), PyStr(<< "4", ".", "5", " ", "o", "u", "t", " ", "o", "f", " ", "5", " ", "s", "t", "a", "r", "s" >>), PyStr(<< "2", "5", ",", "8", "4", "7", " ", "r", "a", "t", "i", "n", "g", "s" >>),
     PyStr(<< "n", "o", "n", "e", " ", "y", "e", "t" >>), PyStr(<< "," >>), PyInt(0), PyInt(7), PyFloat(<< "4", ".", "5" >>, 4), PyNone,
     PyDict(<< Pair(<< "v", "a", "l", "u", "e" >>, PyInt(3)) >>), PyDict(<< Pair(<< "i", "n", "v", "a", "l", "i", "d" >>, PyStr(<< "s", "t", "r", "u", "c", "t", "u", "r", "e" >>)) >>),
     PyList(<< PyInt(5) >>)}

CountEntries(key) == {<< >>} \cup {<< Pair(key, v) >> : v \in CountValues}

\* Contents over the first two keys of a list
CountContents(keys) ==
    {PyDict(a \o b) : a \in CountEntries(keys[1]), b \in CountEntries(keys[2])}

InitCount ==
    /\ NoFetch
    /\ \/ called = "_extract_rating" /\ input \in {[content |-> c] : c \in CountContents(rating_keys)}
       \/ called = "_extract_reviews_count"
          /\ input \in {[content |-> c] : c \in CountContents(review_keys)}
    /\ output = Running

\* rating = self._extract_rating(content)
CallExtractRating ==
    /\ called = "_extract_rating"
    /\ output = Running
    /\ output' = extract_rating(input.content)
    /\ UNCHANGED << called, input >>
    /\ UNCHANGED fetch_vars

\* reviews_count = self._extract_reviews_count(content)
CallExtractReviewsCount ==
    /\ called = "_extract_reviews_count"
    /\ output = Running
    /\ output' = extract_reviews_count(input.content)
    /\ UNCHANGED << called, input >>
    /\ UNCHANGED fetch_vars

NextCount ==
    \/ CallExtractRating
    \/ CallExtractReviewsCount

SpecCount == InitCount /\ [][NextCount]_vars

CountEnded == called \in {"_extract_rating", "_extract_reviews_count"} /\ output.status # "running"

\* The keys of the extractor called
CountKeys == IF called = "_extract_rating" THEN rating_keys ELSE review_keys

\* What the extractor called yields for the i-th key taken alone
YieldOfKey(i) ==
    IF ~HasKey(input.content, CountKeys[i])
    THEN << >>
    ELSE LET alone == PyDict(<< Pair(CountKeys[i], Get(input.content, CountKeys[i])) >>)
         IN IF called = "_extract_rating"
            THEN extract_rating(alone).value
            ELSE extract_reviews_count(alone).value

\* The positions of the keys that yield a non-empty value
YieldingKeys == {i \in 1..Len(CountKeys) : YieldOfKey(i) # << >>}

(* C26: rating and reviews-count extraction return what the first key in    *)
(* priority order that yields a non-empty value yields; a key of higher     *)
(* priority that is present but yields an empty result does not keep a key  *)
(* of lower priority from being used.                                       *)
C26_FirstYieldingKeyWins ==
    CountEnded =>
        /\ output.status = "returned"
        /\ output.value = (IF YieldingKeys = {} THEN << >> ELSE YieldOfKey(Least(YieldingKeys)))

---------------------------------------------------------------------------
\* The url the extractor finds in the content of a well-shaped payload
ContentUrl ==
    IF WellShaped(input.payload)
    THEN safe_extract_text(input.payload.content, UrlKeys).value
    ELSE << >>

\* The fields of the clean structure that hold a text, and a list of texts
TextFields ==
    {"name", "brand", "price", "rating", "reviews_count", "description",
     "bullet_points", "availability", "scraped_at"}

ListFields == {"images", "features"}

(* C27: every envelope scrape_product(product_url) returns, for a success   *)
(* and for every kind of failure, has product.url equal to product_url; a   *)
(* url, product_url or link found in the upstream content is in no field    *)
(* of the result.                                                           *)
C27_UrlIsTheCallersUrl ==
    (ExtractEnded /\ called = "scrape_product") =>
        /\ output.status = "returned"
        /\ output.value.product.url = input.product_url
        /\ ContentUrl # << >> =>
              /\ output.value.product.url # StrValue(ContentUrl)
              /\ \A f \in TextFields : output.value.product[f] # ContentUrl
              /\ \A f \in ListFields :
                    \A i \in DOMAIN output.value.product[f] :
                       output.value.product[f][i] # ContentUrl

\* the content holds a url of its own and the extraction succeeds
C27_Witness ==
    /\ ExtractEnded
    /\ called = "scrape_product"
    /\ input.payload = Payload(RichContent)
    /\ ContentUrl = << "a", ".", "c", "o", "/", "x" >>
    /\ output.value.metadata.extraction_successful = TRUE
    /\ output.value.product.url = UrlQuery

\* the fetch has failed and the envelope carries the caller's url
C27_WitnessFailure ==
    /\ ExtractEnded
    /\ called = "scrape_product"
    /\ HasErrorMarker(input.payload)
    /\ output.value.metadata.extraction_successful = FALSE
    /\ output.value.product.url = input.product_url

---------------------------------------------------------------------------
\* The last entry of kind "skip" or "fetch" the run has logged
LastVisit(log) ==
    LET visits == SelectSeq(log, LAMBDA e : e.kind \in {"skip", "fetch"})
    IN visits[Len(visits)]

(* C28: in process_asins an ASIN whose file <asin>.json exists when it is   *)
(* reached is counted as skipped, is not fetched and keeps its file as it   *)
(* is; a file <asin>.json is created or written only for the ASIN at hand   *)
(* and only when its fetch, in the run at hand, reported                    *)
(* extraction_successful, so a failed fetch leaves every product file as    *)
(* it was.                                                                  *)
C28_SkipsAndWrites ==
    [][called = "process_asins" =>
          /\ (output.status = "loop" /\ output.i <= Len(input.asins)
                /\ output.files[input.asins[output.i]] # NoFile) =>
                /\ output'.results.skipped = output.results.skipped + 1
                /\ output'.results.success = output.results.success
                /\ output'.results.failed = output.results.failed
                /\ output'.files = output.files
                /\ Len(output'.log) = Len(output.log) + 1
                /\ LastVisit(output'.log).kind = "skip"
                /\ LastVisit(output'.log).asin = input.asins[output.i]
          /\ \A a \in AsinNames :
                output'.files[a] # output.files[a] =>
                   /\ output.status = "loop"
                   /\ output.i <= Len(input.asins)
                   /\ a = input.asins[output.i]
                   /\ output'.files[a].run = output.run
                   /\ LastVisit(output'.log) =
                         [i |-> output.i, kind |-> "fetch", asin |-> a,
                          outcome |-> LastVisit(output'.log).outcome, delay |-> 0]
                   /\ LastVisit(output'.log).outcome \in {"success", "write_error"}
          /\ (output.status = "loop" /\ Len(output'.log) > Len(output.log)
                /\ LastVisit(output'.log).outcome = "failed") =>
                output'.files = output.files
    ]_vars

\* the second run has skipped the ASIN the first run saved, and its failed
\* fetch of the other ASIN has left no file
C28_Witness ==
    /\ called = "process_asins"
    /\ output.run = 2
    /\ output.status = "idle"
    /\ output.results = [success |-> 0, failed |-> 1, skipped |-> 1]
    /\ \E k \in LogAt("skip") :
          /\ output.files[output.log[k].asin].run = 1
          /\ output.files[output.log[k].asin].complete
    /\ \E k \in LogAt("fetch") :
          /\ output.log[k].outcome = "failed"
          /\ output.files[output.log[k].asin] = NoFile

---------------------------------------------------------------------------
(* check_status over the directory process_asins leaves *)

\* processed_files: the names of output_dir that match B[0-9A-Z]{9}.json
processed_files(files) == {a \in AsinNames : files[a] # NoFile}

\* failed_count = len(failed_data) when failed_asins_report.json exists
failed_count(report) == IF report.exists THEN Len(report.asins) ELSE 0

\* remaining_count = total_asins - processed_count - failed_count
remaining_count(asins, files, report) ==
    Len(asins) - Cardinality(processed_files(files)) - failed_count(report)

\* The ASINs a report lists
Listed(report) == {report.asins[k] : k \in DOMAIN report.asins}

(* C29: after any sequence of process_asins runs over one output           *)
(* directory, whenever failed_asins_report.json exists it lists exactly     *)
(* the ASINs that failed in the most recent run, no ASIN has a product      *)
(* file and an entry in the report at once, and the remaining count of      *)
(* check_status is not negative.                                            *)
C29_ReportIsOfTheLastRun ==
    (called = "process_asins" /\ output.status = "idle" /\ output.run >= 1
       /\ output.report.exists) =>
        /\ output.report.asins = output.failed_asins
        /\ processed_files(output.files) \cap Listed(output.report) = {}
        /\ remaining_count(input.asins, output.files, output.report) >= 0

\* The report of the first run outlives a second run without failures
StaleReport ==
    /\ called = "process_asins"
    /\ output.status = "idle"
    /\ output.run = 2
    /\ input.asins = << SampleAsin >>
    /\ output.results = [success |-> 1, failed |-> 0, skipped |-> 0]
    /\ output.report = [exists |-> TRUE, asins |-> << SampleAsin >>]
    /\ output.files[SampleAsin].complete
    /\ remaining_count(input.asins, output.files, output.report) = -1

---------------------------------------------------------------------------
(* clean_asin applied on its own *)

\* s.replace(old, ''): every occurrence of the character old is removed
Removed(s, old) == SelectSeq(s, LAMBDA ch : ch # old)

\* s.startswith(prefix)
StartsWith(s, prefix) ==
    /\ Len(s) >= Len(prefix)
    /\ SubSeq(s, 1, Len(prefix)) = prefix

\* The tests of clean_asin on the stripped text, in the order of the code:
\* the first returns every 10-character text that starts with 'B', the
\* second rewrites 'BO' to 'B0'.
clean_asin_checked(asin) ==
    IF Len(asin) = 10 /\ StartsWith(asin, << "B" >>)
    THEN asin
    ELSE IF StartsWith(asin, << "B", "O" >>) /\ Len(asin) = 10
    THEN << "B", "0" >> \o SubSeq(asin, 3, Len(asin))
    ELSE asin

\* asin = asin.strip().replace('\r', '').replace('\n', '')
clean_asin(asin) ==
    clean_asin_checked(Removed(Removed(Strip(asin), "\r"), "\n"))

\* The texts of the test's cases, a 'BO' text that is too short, texts
\* with a line ending inside, and the empty text
AsinTexts ==
    {<< "B", "0", "7", "Y", "Q", "L", "F", "9", "X", "W" >>,
     << "B", "O", "C", "9", "7", "T", "N", "M", "K", "4" >>,
     << "B", "0", "7", "9", "8", "G", "Z", "2", "M", "N" >>,
     << "I", "N", "V", "A", "L", "I", "D", "1", "2", "3" >>,
     << "B", "1", "2", "3" >>,
     << "B", "O", "1", "2" >>,
     << "B", "O", "C", "9", "7", "\n", "T", "N", "M", "K", "4" >>,
     << "B", "1", "\r", "\n", "2" >>,
     << >>}

\* What surrounds the text on its line
Margins == {<< >>, << " " >>, << " ", " " >>, << "\n" >>, << "\r", "\n" >>, << "\t" >>}

InitClean ==
    /\ NoFetch
    /\ called = "clean_asin"
    /\ input \in {left \o t \o right : left \in Margins, t \in AsinTexts, right \in Margins}
    /\ output = Running

CallCleanAsin ==
    /\ called = "clean_asin"
    /\ output = Running
    /\ output' = Returned(clean_asin(input))
    /\ UNCHANGED << called, input >>
    /\ UNCHANGED fetch_vars

NextClean == CallCleanAsin

SpecClean == InitClean /\ [][NextClean]_vars

\* The 10-character texts that begin with 'BO'
IsLetterOTypo(s) == Len(s) = 10 /\ StartsWith(s, << "B", "O" >>)

(* C30: clean_asin strips the surrounding whitespace and line endings; a    *)
(* 10-character identifier that begins with 'BO' (letter O) is returned     *)
(* with its second character corrected to '0'; every other input is         *)
(* returned stripped and otherwise unchanged.                               *)
C30_LetterOCorrected ==
    (called = "clean_asin" /\ output.status = "returned") =>
        output.value = IF IsLetterOTypo(Strip(input))
                 THEN << "B", "0" >> \o SubSeq(Strip(input), 3, 10)
                 ELSE Strip(input)

\* 'BOC97TNMK4  ' comes back with the letter O in place
LetterOKept ==
    /\ called = "clean_asin"
    /\ input = << "B", "O", "C", "9", "7", "T", "N", "M", "K", "4", " ", " " >>
    /\ output = Returned(<< "B", "O", "C", "9", "7", "T", "N", "M", "K", "4" >>)

============================================================================
